---- MODULE Spec2Model ----
(***************************************************************************)
(* Retrieval and ranking engine of the hotel chat bot: min-max             *)
(* normalisation, BM25 re-ranking and blending of the hybrid search, the   *)
(* multi-collection aggregators, the tf-idf LocalIndex and the start-up of *)
(* the web application.                                                    *)
(*                                                                         *)
(* Numbers.  Scores are floats in the source.  Here a raw score is an      *)
(* integer multiple of an unnamed unit; a normalised or blended score is   *)
(* an exact fraction [num, den] with den > 0; logarithms and square roots  *)
(* are fixed-point in thousandths (Milli).                                 *)
(***************************************************************************)
EXTENDS Integers, Sequences, FiniteSets, TLC

VARIABLES
    call,   \* the last call of a search function: its name, arguments, locals and result
    app,    \* the web application under construction and the last request it served
    kb,     \* a LocalIndex shared by the requests of a process, and what one earlier call on it returned
    lemma,  \* the lemma cache of the shared MorphAnalyzer and the request threads inside normalize_text
    book    \* the booking dialog: the session table, the clock and the last reply

vars == <<call, app, kb, lemma, book>>

\* no search function has been called yet
NoCall == [fn |-> "none"]

----------------------------------------------------------------------------
(* Bounds of the model *)

\* longest score list handed to _minmax_norm
MaxVals == 3

\* most hits one backend call returns
MaxRaw == 3

\* largest limit asked for
MaxLimit == 3

\* most hits a backend returns for one collection of an aggregated search
MaxHits == 2

\* most documents in the local knowledge base
MaxDocs == 3

\* most records in one file of the knowledge base directory
MaxItems == 2

\* most words in one text given to normalize_text
MaxWords == 2

\* _LEMMA_CACHE_MAX_SIZE, 50_000 in the source, scaled down
_LEMMA_CACHE_MAX_SIZE == 2

\* the last day a datetime can hold (9999-12-31), scaled down
MaxDay == 40

\* the last day on which a message arrives
MaxToday == 6

\* most times the clock of the booking dialog advances
MaxTicks == 2

----------------------------------------------------------------------------
(* Python built-ins used by the source *)

Abs(x) == IF x < 0 THEN -x ELSE x

Min2(a, b) == IF a <= b THEN a ELSE b

Max2(a, b) == IF a >= b THEN a ELSE b

SeqsUpTo(S, n) == UNION {[1..k -> S] : k \in 0..n}

\* a list built by a comprehension: its entries are computed once
List(f) == SubSeq(f, 1, Len(f))

\* min(vals) and max(vals) of a non-empty list
PyMin(vals) == CHOOSE m \in {vals[i] : i \in 1..Len(vals)} : \A i \in 1..Len(vals) : m <= vals[i]

PyMax(vals) == CHOOSE m \in {vals[i] : i \in 1..Len(vals)} : \A i \in 1..Len(vals) : m >= vals[i]

\* seq[:n], for every integer n (a negative n counts from the end)
PyPrefix(seq, n) ==
    IF n >= 0 THEN SubSeq(seq, 1, Min2(n, Len(seq)))
    ELSE SubSeq(seq, 1, Max2(0, Len(seq) + n))

\* 1 / rel_tol of math.isclose (rel_tol defaults to 1e-09, abs_tol to 0.0)
RelTolInv == 1000000000

\* math.isclose(a, b): a == b, or |b - a| <= rel_tol * |b|, or |b - a| <= rel_tol * |a|.
\* For integers d, m: d <= m / RelTolInv  iff  d <= m \div RelTolInv.
isclose(a, b) ==
    \/ a = b
    \/ Abs(b - a) <= Abs(b) \div RelTolInv
    \/ Abs(b - a) <= Abs(a) \div RelTolInv

----------------------------------------------------------------------------
(* Fractions *)

Rat(n, d) == [num |-> n, den |-> d]

Zero == Rat(0, 1)

RatEq(x, y) == IF x.den = y.den THEN x.num = y.num ELSE x.num * y.den = y.num * x.den

RatLess(x, y) == IF x.den = y.den THEN x.num < y.num ELSE x.num * y.den < y.num * x.den

InUnit(x) == x.den > 0 /\ 0 <= x.num /\ x.num <= x.den

----------------------------------------------------------------------------
(* _minmax_norm *)

_minmax_norm_exact(vals) ==
    IF vals = <<>> THEN <<>>
    ELSE LET vmin == PyMin(vals)
             vmax == PyMax(vals)
         IN  IF vmax = vmin
             THEN [i \in 1..Len(vals) |-> Zero]
             ELSE List([i \in 1..Len(vals) |-> Rat(vals[i] - vmin, vmax - vmin)])

_minmax_norm_ones(vals) ==
    IF vals = <<>> THEN <<>>
    ELSE LET vmin == PyMin(vals)
             vmax == PyMax(vals)
         IN  IF isclose(vmax, vmin)
             THEN [i \in 1..Len(vals) |-> Rat(1, 1)]
             ELSE List([i \in 1..Len(vals) |-> Rat(vals[i] - vmin, vmax - vmin)])

_minmax_norm(vals) ==
    IF vals = <<>> THEN <<>>
    ELSE LET vmin == PyMin(vals)
             vmax == PyMax(vals)
         IN  IF isclose(vmax, vmin)
             THEN [i \in 1..Len(vals) |-> Zero]
             ELSE List([i \in 1..Len(vals) |-> Rat(vals[i] - vmin, vmax - vmin)])

\* score lists given to _minmax_norm: small values, and two large ones that
\* differ by less than rel_tol times their size
NormScores == {-1, 0, 1, 2, RelTolInv, RelTolInv + 1}

MinMaxCall ==
    /\ call = NoCall
    /\ \E vals \in SeqsUpTo(NormScores, MaxVals) :
        /\ call' = [fn |-> "_minmax_norm", vals |-> vals, ret |-> _minmax_norm(vals)]
        /\ UNCHANGED <<app, kb, lemma, book>>

----------------------------------------------------------------------------
(* Tokenisation and BM25 (hybrid search script) *)

\* A text is modelled as the list of the words _TOKEN_RE finds in it, in order.
\* _norm_token lower-cases a word (and maps the letter yo to ye): the only
\* upper-case word of the model is "Kot".
_norm_token(s) == IF s = "Kot" THEN "kot" ELSE s

_tokenize_ru(text) == [i \in 1..Len(text) |-> _norm_token(text[i])]

\* list(dict.fromkeys(tokens)): the distinct tokens in order of first occurrence
RECURSIVE UniqueInOrder(_)
UniqueInOrder(tokens) ==
    IF tokens = <<>> THEN <<>>
    ELSE LET init == UniqueInOrder(SubSeq(tokens, 1, Len(tokens) - 1))
             last == tokens[Len(tokens)]
         IN  IF \E i \in 1..Len(init) : init[i] = last THEN init ELSE Append(init, last)

RECURSIVE SumSeq(_)
SumSeq(s) == IF s = <<>> THEN 0 ELSE s[1] + SumSeq(Tail(s))

CountOf(tok, toks) == Cardinality({i \in 1..Len(toks) : toks[i] = tok})

\* 1000 * ln(n), rounded, for n = 1..16
LnMilli(n) == <<0, 693, 1099, 1386, 1609, 1792, 1946, 2079,
                2197, 2303, 2398, 2485, 2565, 2639, 2708, 2773>>[n]

\* defaults of _bm25_scores: k1 = 1.5 = K1Num / K1Den, b = 0.75 = BNum / BDen
K1Num == 3
K1Den == 2
BNum == 3
BDen == 4

\* idf without the + 1.0 inside the logarithm: log((D - df + 0.5) / (df + 0.5))
Bm25IdfClassic(D, df) == LnMilli(2 * (D - df) + 1) - LnMilli(2 * df + 1)

\* idf[t] = log((D - df + 0.5) / (df + 0.5) + 1.0) = log((2D + 2) / (2df + 1)), in thousandths
Bm25Idf(D, df) == LnMilli(2 * D + 2) - LnMilli(2 * df + 1)

\* idf[t] * (num / den) for one term of one document, in thousandths, where
\*   num = tf (k1 + 1),  den = tf + k1 (1 - b + b * doc_len / avgdl),  avgdl = sumlen / D;
\* both are multiplied by K1Den * BDen * sumlen to stay in the integers.
\* A term with tf > 0 has sumlen > 0, so max(avgdl, 1e-9) is avgdl.
Bm25Term(idf, tf, dl, sumlen, D) ==
    (idf * (tf * (K1Num + K1Den) * BDen * sumlen))
        \div (tf * K1Den * BDen * sumlen + K1Num * ((BDen - BNum) * sumlen + BNum * dl * D))

\* q_terms without list(dict.fromkeys(...)): every token of the query
Bm25TermsAll(query) == _tokenize_ru(query)

\* tf[tok]: one count for each occurrence of the token in the document
Bm25Tf(t, toks) == CountOf(t, toks)

\* q_terms: the distinct tokens of the query, in order
Bm25Terms(query) == UniqueInOrder(_tokenize_ru(query))

\* doc_tokens
Bm25DocTokens(docs) == List([i \in 1..Len(docs) |-> _tokenize_ru(docs[i])])

\* avgdl = (sum(doc_len) / D) if D > 0 else 1.0, as the fraction sum(doc_len) / D
Bm25AvgdlUnguarded(doc_len) == Rat(SumSeq(doc_len), Len(doc_len))

Bm25Avgdl(doc_len) ==
    IF Len(doc_len) > 0 THEN Rat(SumSeq(doc_len), Len(doc_len)) ELSE Rat(1, 1)

\* df[t]: the documents of the pool that hold the term
Bm25Df(t, doc_tokens) ==
    Cardinality({i \in 1..Len(doc_tokens) : CountOf(t, doc_tokens[i]) > 0})

_bm25_scores(query, docs) ==
    LET q_terms == Bm25Terms(query)
        D == Len(docs)
        doc_tokens == Bm25DocTokens(docs)
        doc_len == List([i \in 1..D |-> Len(doc_tokens[i])])
        avgdl == Bm25Avgdl(doc_len)
        score(i) ==
            SumSeq([k \in 1..Len(q_terms) |->
                LET t == q_terms[k]
                    tf == Bm25Tf(t, doc_tokens[i])
                IN  IF tf = 0 THEN 0
                    ELSE Bm25Term(Bm25Idf(D, Bm25Df(t, doc_tokens)), tf, doc_len[i],
                                  avgdl.num, avgdl.den)])
    IN  List([i \in 1..D |-> score(i)])

\* every divisor of a call, as an integer multiple of it: D of sum(doc_len) / D,
\* 2 * max(avgdl, 1e-9) * D of doc_len[i] / max(avgdl, 1e-9) (1 stands for the
\* 1e-9 taken when avgdl is 0), 2 * (df + 0.5) of the idf, and
\* K1Den * BDen * sumlen * den of num / den
Bm25Divisors(query, docs) ==
    LET q_terms == Bm25Terms(query)
        D == Len(docs)
        doc_tokens == Bm25DocTokens(docs)
        doc_len == List([i \in 1..D |-> Len(doc_tokens[i])])
        sumlen == SumSeq(doc_len)
    IN  {D : i \in 1..D}
        \cup {IF sumlen > 0 THEN 2 * sumlen ELSE 1 : i \in 1..D}
        \cup {2 * Bm25Df(q_terms[k], doc_tokens) + 1 : k \in 1..Len(q_terms)}
        \cup {CountOf(q_terms[k], doc_tokens[i]) * K1Den * BDen * sumlen
                  + K1Num * ((BDen - BNum) * sumlen + BNum * doc_len[i] * D) :
              <<k, i>> \in {<<k, i>> \in (1..Len(q_terms)) \X (1..D) :
                               CountOf(q_terms[k], doc_tokens[i]) > 0}}

\* candidate texts of a direct call: the three sentences of the example
\* corpus, a text without a token, and a text that repeats a term
Bm25Docs ==
    { <<"kot", "sidit", "na", "okne">>,
      <<"sobaka", "bezhit", "po", "dvoru">>,
      <<"kot", "i", "sobaka", "igrayut">>,
      <<>>,
      <<"Kot", "kot">> }

Bm25Queries == {<<>>, <<"kot">>, <<"Kot", "sobaka", "kot">>, <<"ryba">>}

Bm25Call ==
    /\ call = NoCall
    /\ \E query \in Bm25Queries, docs \in SeqsUpTo(Bm25Docs, MaxRaw) :
        /\ call' = [fn |-> "_bm25_scores", query |-> query, docs |-> docs,
                    ret |-> _bm25_scores(query, docs),
                    q_terms |-> Bm25Terms(query),
                    avgdl |-> Bm25Avgdl([i \in 1..Len(docs) |-> Len(_tokenize_ru(docs[i]))]),
                    df |-> [k \in 1..Len(Bm25Terms(query)) |->
                               Bm25Df(Bm25Terms(query)[k], Bm25DocTokens(docs))],
                    tf |-> [i \in 1..Len(docs) |->
                               [k \in 1..Len(Bm25Terms(query)) |->
                                   Bm25Tf(Bm25Terms(query)[k], Bm25DocTokens(docs)[i])]],
                    divisors |-> Bm25Divisors(query, docs)]
        /\ UNCHANGED <<app, kb, lemma, book>>

----------------------------------------------------------------------------
(* search: the hybrid search *)

\* max(0.0, min(1.0, alpha))
ClampAlphaOff(alpha) == alpha

ClampAlpha(alpha) ==
    LET m == IF RatLess(alpha, Rat(1, 1)) THEN alpha ELSE Rat(1, 1)
    IN  IF RatLess(Zero, m) THEN m ELSE Zero

\* alpha * s + (1 - alpha) * b
BlendSwapped(alpha, s, b) ==
    Rat((alpha.den - alpha.num) * s.num * b.den + alpha.num * b.num * s.den,
        alpha.den * s.den * b.den)

Blend(alpha, s, b) ==
    Rat(alpha.num * s.num * b.den + (alpha.den - alpha.num) * b.num * s.den,
        alpha.den * s.den * b.den)

\* sort(key=..., reverse=True): the positions of a list of keys (fractions),
\* largest key first; list.sort is stable, also with reverse=True, so equal
\* keys keep their order
SortDescAscending(keys) ==
    LET n == Len(keys)
        before(i) == {j \in 1..n : \/ RatLess(keys[j], keys[i])
                                   \/ (~RatLess(keys[i], keys[j]) /\ j < i)}
    IN  List([p \in 1..n |-> CHOOSE i \in 1..n : Cardinality(before(i)) = p - 1])

\* a descending sort that is not stable: equal keys come out in reverse order
SortDescTiesReversed(keys) ==
    LET n == Len(keys)
        before(i) == {j \in 1..n : \/ RatLess(keys[i], keys[j])
                                   \/ (~RatLess(keys[j], keys[i]) /\ j > i)}
    IN  List([p \in 1..n |-> CHOOSE i \in 1..n : Cardinality(before(i)) = p - 1])

SortDesc(keys) ==
    LET n == Len(keys)
        before(i) == {j \in 1..n : \/ RatLess(keys[i], keys[j])
                                   \/ (~RatLess(keys[j], keys[i]) /\ j < i)}
    IN  List([p \in 1..n |-> CHOOSE i \in 1..n : Cardinality(before(i)) = p - 1])

\* idx[:max(1, limit)]
HybridCutExact(idx, limit) == PyPrefix(idx, limit)

HybridCut(idx, limit) == PyPrefix(idx, Max2(1, limit))

search(query, raw, alpha0, limit) ==
    IF raw = <<>> THEN [empty |-> TRUE, final |-> <<>>]
    ELSE
    LET n == Len(raw)
        sem_scores == List([i \in 1..n |-> IF raw[i].numeric THEN raw[i].score ELSE 0])
        sem_norm == _minmax_norm(sem_scores)
        docs == [i \in 1..n |-> raw[i].payload.text_bm25]
        bm25 == _bm25_scores(query, docs)
        bm25_norm == _minmax_norm(bm25)
        alpha == ClampAlpha(alpha0)
        blended == List([i \in 1..n |-> Blend(alpha, sem_norm[i], bm25_norm[i])])
        idx == SortDesc(blended)
        cut == HybridCut(idx, limit)
    IN  [empty |-> FALSE,
         sem_norm |-> sem_norm, bm25 |-> bm25, bm25_norm |-> bm25_norm,
         alpha |-> alpha, blended |-> blended, idx |-> idx,
         final |-> [p \in 1..Len(cut) |->
                       [score_blended |-> blended[cut[p]], payload |-> raw[cut[p]].payload,
                        pos |-> cut[p]]]]

\* what the dense backend may return: (payload, score) pairs; numeric is
\* isinstance(score, (int, float)); text_bm25 is "" when the field is missing
HybridHits ==
    { [payload |-> [id |-> 1, text_bm25 |-> <<"kot", "sidit", "okno">>], score |-> 2, numeric |-> TRUE],
      [payload |-> [id |-> 2, text_bm25 |-> <<"sobaka", "bezhit">>], score |-> 2, numeric |-> TRUE],
      [payload |-> [id |-> 3, text_bm25 |-> <<"Kot", "sobaka", "igrayut">>], score |-> 1, numeric |-> TRUE],
      [payload |-> [id |-> 4, text_bm25 |-> <<>>], score |-> 0, numeric |-> FALSE],
      [payload |-> [id |-> 5, text_bm25 |-> <<"kot", "kot">>], score |-> 3, numeric |-> TRUE] }

HybridQueries == {<<"kot">>, <<"Kot", "sobaka", "kot">>, <<"ryba">>}

\* --alpha: any float; these lie below, inside and above [0, 1]
Alphas == {Rat(-1, 2), Rat(0, 1), Rat(3, 5), Rat(1, 1), Rat(3, 2)}

\* --limit: any integer
Limits == -1..MaxLimit

HybridCall ==
    /\ call = NoCall
    /\ \E query \in HybridQueries, raw \in SeqsUpTo(HybridHits, MaxRaw),
          alpha \in Alphas, limit \in Limits :
        /\ call' = [fn |-> "search", query |-> query, raw |-> raw, alpha |-> alpha,
                    limit |-> limit, ret |-> search(query, raw, alpha, limit)]
        /\ UNCHANGED <<app, kb, lemma, book>>

----------------------------------------------------------------------------
(* Payload text and the multi-collection aggregators (rag.py, app.py) *)

\* A text is a list of lines; "" (and None, and a missing key) is the empty
\* list.  A payload is [text, text_bm25, raw]; raw is [is_dict, text_blocks
\* (the mapping's values, is_blocks when it is a dict), text, category,
\* question, answer].
NoRaw == [is_dict |-> FALSE, is_blocks |-> FALSE, text_blocks |-> <<>>, text |-> <<>>,
          category |-> "", question |-> <<>>, answer |-> <<>>]

\* "\n".join(str(value) for value in values if value)
RECURSIVE JoinTruthy(_)
JoinTruthy(values) ==
    IF values = <<>> THEN <<>> ELSE values[1] \o JoinTruthy(Tail(values))

\* the same sources with the text_blocks of raw asked before the text fields
extract_payload_text_blocks_first(payload) ==
    LET text == IF payload.text # <<>> THEN payload.text ELSE payload.text_bm25
        raw == payload.raw
        combined == IF raw.is_dict /\ raw.is_blocks THEN JoinTruthy(raw.text_blocks) ELSE <<>>
    IN  IF combined # <<>> THEN combined
        ELSE IF text # <<>> THEN text
        ELSE IF ~raw.is_dict THEN <<>>
        ELSE IF raw.text # <<>> THEN raw.text
        ELSE IF raw.category = "faq" /\ (raw.question # <<>> \/ raw.answer # <<>>)
             THEN <<"Q:">> \o raw.question \o <<"A:">> \o raw.answer
        ELSE <<>>

extract_payload_text(payload) ==
    LET text == IF payload.text # <<>> THEN payload.text ELSE payload.text_bm25
        raw == payload.raw
        combined == IF raw.is_blocks THEN JoinTruthy(raw.text_blocks) ELSE <<>>
    IN  IF text # <<>> THEN text
        ELSE IF ~raw.is_dict THEN <<>>
        ELSE IF combined # <<>> THEN combined
        ELSE IF raw.text # <<>> THEN raw.text
        ELSE IF raw.category = "faq" /\ (raw.question # <<>> \/ raw.answer # <<>>)
             THEN <<"Q:">> \o raw.question \o <<"A:">> \o raw.answer
        ELSE <<>>

\* key=lambda item: item.score, for the items of a list
ScoreKeys(items) == [i \in 1..Len(items) |-> Rat(items[i].score, 1)]

\* heapq.nlargest(n, items, key): sorted(items, key=key, reverse=True)[:n],
\* and [] when n <= 0
nlargest(n, items) ==
    IF n <= 0 THEN <<>>
    ELSE LET idx == SortDesc(ScoreKeys(items))
         IN  [p \in 1..Min2(n, Len(items)) |-> items[idx[p]]]

\* A backend answer for one collection: it raises, or returns hits.
\* SearchResult carries collection, score and text; id is the hit's point id,
\* kept beside it only to state claims (the source drops it).
RagHitsOf(collection, hits) ==
    LET keep == SelectSeq(hits, LAMBDA hit : extract_payload_text(hit.payload) # <<>>)
    IN  [i \in 1..Len(keep) |->
            [collection |-> collection, score |-> keep[i].score,
             text |-> extract_payload_text(keep[i].payload), id |-> keep[i].id]]

\* the except branch of rag.search_all_collections: print and continue
RagOnErrorRaise(acc, collection) ==
    [acc EXCEPT !.raised = TRUE, !.queried = Append(acc.queried, collection)]

RagOnError(acc, collection) ==
    [acc EXCEPT !.queried = Append(acc.queried, collection)]

RECURSIVE RagLoop(_, _, _)
RagLoop(acc, collections, backend) ==
    IF collections = <<>> \/ acc.raised THEN acc
    ELSE LET collection == collections[1]
             answer == backend[collection]
         IN  RagLoop(
                IF ~answer.ok THEN RagOnError(acc, collection)
                ELSE [acc EXCEPT !.queried = Append(acc.queried, collection),
                                 !.aggregated = acc.aggregated \o RagHitsOf(collection, answer.hits)],
                Tail(collections), backend)

rag_search_all_collections(backend, collections, limit) ==
    LET acc == RagLoop([aggregated |-> <<>>, queried |-> <<>>, raised |-> FALSE],
                       collections, backend)
    IN  [raised |-> acc.raised, queried |-> acc.queried, aggregated |-> acc.aggregated,
         results |-> IF acc.raised THEN <<>> ELSE nlargest(limit, acc.aggregated)]

\* app.search_all_collections: the whole body of the loop is inside try, every
\* hit is appended (also one without text), then sort and all_results[:limit]
AppTextOf(payload) == extract_payload_text(payload)

AppHitsOf(collection, hits) ==
    [i \in 1..Len(hits) |->
        [collection |-> collection, score |-> hits[i].score,
         text |-> AppTextOf(hits[i].payload), id |-> hits[i].id]]

RECURSIVE AppLoop(_, _, _)
AppLoop(acc, collections, backend) ==
    IF collections = <<>> THEN acc
    ELSE LET coll == collections[1]
             answer == backend[coll]
         IN  AppLoop(
                IF ~answer.ok THEN [acc EXCEPT !.queried = Append(acc.queried, coll)]
                ELSE [acc EXCEPT !.queried = Append(acc.queried, coll),
                                 !.aggregated = acc.aggregated \o AppHitsOf(coll, answer.hits)],
                Tail(collections), backend)

app_search_all_collections(backend, collections, limit) ==
    LET acc == AppLoop([aggregated |-> <<>>, queried |-> <<>>, raised |-> FALSE],
                       collections, backend)
        idx == SortDesc(ScoreKeys(acc.aggregated))
        cut == PyPrefix(idx, limit)
    IN  [raised |-> acc.raised, queried |-> acc.queried, aggregated |-> acc.aggregated,
         results |-> [p \in 1..Len(cut) |-> acc.aggregated[cut[p]]]]

\* the collections searched
Collections == <<"faq", "rooms">>

TextPayload(lines) == [text |-> lines, text_bm25 |-> <<>>, raw |-> NoRaw]

\* hits a backend may return for a collection: two with the same score, one
\* whose payload yields no text, one whose text comes from the faq fallback
AggHits ==
    { [id |-> 1, score |-> 2, payload |-> TextPayload(<<"pool">>)],
      [id |-> 2, score |-> 2, payload |-> TextPayload(<<>>)],
      [id |-> 3, score |-> 3,
       payload |-> [text |-> <<>>, text_bm25 |-> <<>>,
                    raw |-> [NoRaw EXCEPT !.is_dict = TRUE, !.category = "faq",
                                          !.question = <<"wifi">>]]] }

BackendAnswers ==
    {[ok |-> FALSE, hits |-> <<>>]} \cup {[ok |-> TRUE, hits |-> h] : h \in SeqsUpTo(AggHits, MaxHits)}

Backends == [{Collections[i] : i \in 1..Len(Collections)} -> BackendAnswers]

RagCall ==
    /\ call = NoCall
    /\ \E backend \in Backends, limit \in Limits :
        /\ call' = [fn |-> "rag.search_all_collections", backend |-> backend,
                    collections |-> Collections, limit |-> limit,
                    ret |-> rag_search_all_collections(backend, Collections, limit)]
        /\ UNCHANGED <<app, kb, lemma, book>>

AppCall ==
    /\ call = NoCall
    /\ \E backend \in Backends, limit \in Limits :
        /\ call' = [fn |-> "app.search_all_collections", backend |-> backend,
                    collections |-> Collections, limit |-> limit,
                    ret |-> app_search_all_collections(backend, Collections, limit)]
        /\ UNCHANGED <<app, kb, lemma, book>>

\* payloads of every shape: each text field present or not, raw missing (or
\* not a mapping) or a mapping with any of its fields; a value of text_blocks
\* may be empty
RawShapes ==
    {NoRaw} \cup
    [is_dict : {TRUE}, is_blocks : BOOLEAN,
     text_blocks : {<<>>, << <<"block1">>, <<>>, <<"block2">> >>},
     text : {<<>>, <<"rawtext">>}, category : {"faq", "rooms"},
     question : {<<>>, <<"wifi">>}, answer : {<<>>, <<"yes">>}]

Payloads == [text : {<<>>, <<"pool">>}, text_bm25 : {<<>>, <<"bm25">>}, raw : RawShapes]

\* the text of one hit, as rag.py and as app.py compute it
ExtractCall ==
    /\ call = NoCall
    /\ \E payload \in Payloads :
        /\ call' = [fn |-> "extract_payload_text", payload |-> payload,
                    ret |-> extract_payload_text(payload),
                    app_text |-> AppTextOf(payload)]
        /\ UNCHANGED <<app, kb, lemma, book>>

----------------------------------------------------------------------------
(* LocalIndex: the tf-idf index (chatbot/local_index.py) *)

\* every token of the model, in sorted() order
TokenOrder == <<"bezhit", "klyuchevoy", "kot", "okno", "ryba", "sidit", "slovo", "sobaka">>

TokenRank(tok) == CHOOSE r \in 1..Len(TokenOrder) : TokenOrder[r] = tok

TokensOf(toks) == {toks[i] : i \in 1..Len(toks)}

\* floor of the square root
RECURSIVE ISqrtFrom(_, _)
ISqrtFrom(n, x) ==
    LET y == (x + n \div x) \div 2
    IN  IF y >= x THEN x ELSE ISqrtFrom(n, y)

ISqrt(n) == IF n <= 0 THEN 0 ELSE ISqrtFrom(n, n)

\* math.log((1 + doc_count) / (1 + df)) + 1.0, in thousandths
TfidfIdf(doc_count, df) == LnMilli(1 + doc_count) - LnMilli(1 + df) + 1000

\* _encode_tokens that also stores the tokens outside the vocabulary
EncodeTokens_oov(token_to_index, idf, tokens) ==
    LET total == Len(tokens)
        index(tok) == IF tok \in DOMAIN token_to_index THEN token_to_index[tok] ELSE -1
        weight(tok) == (CountOf(tok, tokens) * (IF tok \in DOMAIN idf THEN idf[tok] ELSE 1000))
                           \div total
        stored == {tok \in TokensOf(tokens) : weight(tok) # 0}
        vector == [i \in {index(tok) : tok \in stored} |->
                      weight(CHOOSE tok \in stored : index(tok) = i)]
        sq == [r \in 1..Len(TokenOrder) |->
                  IF TokenOrder[r] \in stored
                  THEN weight(TokenOrder[r]) * weight(TokenOrder[r]) ELSE 0]
    IN  IF total = 0 THEN [vector |-> <<>>, norm |-> 0]
        ELSE [vector |-> vector, norm |-> ISqrt(SumSeq(sq))]

\* _encode_tokens: the sparse vector (index -> weight, in thousandths; a zero
\* weight is not stored) and its norm, for an index with the given vocabulary
EncodeTokens(token_to_index, idf, tokens) ==
    LET total == Len(tokens)
        known == TokensOf(tokens) \cap DOMAIN token_to_index
        weight(tok) == (CountOf(tok, tokens) * idf[tok]) \div total
        stored == {tok \in known : weight(tok) # 0}
        vector == [i \in {token_to_index[tok] : tok \in stored} |->
                      weight(CHOOSE tok \in stored : token_to_index[tok] = i)]
        sq == [r \in 1..Len(TokenOrder) |->
                  IF TokenOrder[r] \in stored
                  THEN weight(TokenOrder[r]) * weight(TokenOrder[r]) ELSE 0]
    IN  IF total = 0 THEN [vector |-> <<>>, norm |-> 0]
        ELSE [vector |-> vector, norm |-> ISqrt(SumSeq(sq))]

\* the position of a token in the sorted order of all tokens, whatever the vocabulary
VocabularyIndexGlobal(vocabulary, tok) == TokenRank(tok) - 1

\* enumerate(vocabulary_tokens): the position of a token in
\* sorted(df_counter.keys()); Python counts from 0
VocabularyIndex(vocabulary, tok) ==
    Cardinality({o \in vocabulary : TokenRank(o) < TokenRank(tok)})

\* a count of every occurrence of the token, repeats inside a document included
IndexDfOccurrences(tok, documents) ==
    SumSeq([d \in 1..Len(documents) |-> CountOf(tok, documents[d].normalized_tokens)])

\* df_counter[token] after df_counter.update(set(doc.normalized_tokens)) for every document
IndexDf(tok, documents) ==
    Cardinality({d \in 1..Len(documents) : tok \in TokensOf(documents[d].normalized_tokens)})

\* LocalIndex.__init__; documents is a non-empty list of _IndexedDocument.
\* df is the local df_counter, kept beside the attributes of the object.
LocalIndexOf(documents) ==
    LET doc_count == Len(documents)
        vocabulary == UNION {TokensOf(documents[d].normalized_tokens) : d \in 1..doc_count}
        df == [tok \in vocabulary |-> IndexDf(tok, documents)]
        token_to_index == [tok \in vocabulary |-> VocabularyIndex(vocabulary, tok)]
        idf == [tok \in vocabulary |-> TfidfIdf(doc_count, df[tok])]
        enc == [d \in 1..doc_count |->
                   EncodeTokens(token_to_index, idf, documents[d].normalized_tokens)]
    IN  [documents |-> documents, doc_count |-> doc_count,
         token_to_index |-> token_to_index, idf |-> idf, df |-> df,
         dimension |-> Cardinality(vocabulary),
         doc_vectors |-> [d \in 1..doc_count |-> enc[d].vector],
         doc_norms |-> [d \in 1..doc_count |-> enc[d].norm]]

\* the divisions of _encode_tokens: tf = count / total, once for each token of
\* the vocabulary that the text holds
EncodeDivisors(token_to_index, tokens) ==
    IF Len(tokens) = 0 THEN {}
    ELSE {Len(tokens) : tok \in TokensOf(tokens) \cap DOMAIN token_to_index}

\* the sum of weight * other over the indices both vectors hold
CosineDot(lhs, rhs) ==
    LET shared == DOMAIN lhs \cap DOMAIN rhs
        prod == [r \in 0..(Len(TokenOrder) - 1) |->
                    IF r \in shared THEN lhs[r] * rhs[r] ELSE 0]
    IN  SumSeq([k \in 1..Len(TokenOrder) |-> prod[k - 1]])

\* _cosine_similarity, in thousandths: dot / (lhs_norm * rhs_norm)
_cosine_similarity_unguarded(lhs, rhs, lhs_norm, rhs_norm) ==
    LET dot == CosineDot(lhs, rhs)
    IN  IF lhs_norm = 0 \/ rhs_norm = 0 THEN -1
        ELSE IF dot <= 0 THEN 0
        ELSE (((dot * 100) \div lhs_norm) * 10) \div rhs_norm

_cosine_similarity(lhs, rhs, lhs_norm, rhs_norm) ==
    IF lhs_norm = 0 \/ rhs_norm = 0 THEN 0
    ELSE LET dot == CosineDot(lhs, rhs)
         IN  IF dot <= 0 THEN 0
             ELSE (((dot * 100) \div lhs_norm) * 10) \div rhs_norm

\* the division of _cosine_similarity: dot / (lhs_norm * rhs_norm) on its last line
CosineDivisors(lhs, rhs, lhs_norm, rhs_norm) ==
    IF lhs_norm = 0 \/ rhs_norm = 0 THEN {}
    ELSE IF CosineDot(lhs, rhs) <= 0 THEN {}
    ELSE {lhs_norm * rhs_norm}

\* a scored document is kept unless score <= 0.0
LocalKeepsZero(score) == score >= 0

LocalKeeps(score) == score > 0

\* not sparse_query or query_norm == 0.0: search returns no results
QueryIsEmpty(query) == DOMAIN query.vector = {} \/ query.norm = 0

\* scored[:limit]
LocalCut(scored, limit) == PyPrefix(scored, limit)

\* LocalIndex.search(text, limit=limit); text is the list text.split().
\* results is what the call returns (each with the position doc of its
\* document in the index); scored is the list before the sort, sparse_query
\* the encoded query, similarity[d] what _cosine_similarity answers for the
\* query and document d, divisors every divisor the call divided by.
LocalIndexSearch(index, text, limit) ==
    LET query == EncodeTokens(index.token_to_index, index.idf, text)
        n == index.doc_count
        similarity == [d \in 1..n |->
                          _cosine_similarity(query.vector, index.doc_vectors[d],
                                             query.norm, index.doc_norms[d])]
        visited == IF QueryIsEmpty(query) THEN {}
                   ELSE {d \in 1..n : index.doc_norms[d] # 0}
        kept == SelectSeq([d \in 1..n |-> d],
                          LAMBDA d : d \in visited /\ LocalKeeps(similarity[d]))
        scored == [k \in 1..Len(kept) |->
                      [score |-> similarity[kept[k]], doc |-> kept[k]]]
        order == SortDesc(ScoreKeys(scored))
        sorted == [p \in 1..Len(scored) |-> scored[order[p]]]
        limited == LocalCut(sorted, limit)
    IN  [sparse_query |-> query,
         similarity |-> similarity,
         divisors |-> EncodeDivisors(index.token_to_index, text)
                      \cup UNION {CosineDivisors(query.vector, index.doc_vectors[d],
                                                 query.norm, index.doc_norms[d]) : d \in visited},
         scored |-> scored,
         results |-> [p \in 1..Len(limited) |->
             [collection |-> index.documents[limited[p].doc].collection,
              score |-> limited[p].score,
              text |-> index.documents[limited[p].doc].text,
              doc |-> limited[p].doc]]]

\* documents of the knowledge base: collection, text and its normalised tokens
KbDocuments ==
    { [collection |-> "faq", text |-> <<"kot sidit okno">>,
       normalized_tokens |-> <<"kot", "sidit", "okno">>],
      [collection |-> "faq", text |-> <<"sobaka bezhit">>,
       normalized_tokens |-> <<"sobaka", "bezhit">>],
      [collection |-> "rooms", text |-> <<"kot sobaka kot">>,
       normalized_tokens |-> <<"kot", "sobaka", "kot">>],
      [collection |-> "rooms", text |-> <<"...">>, normalized_tokens |-> <<>>] }

\* the documents from_directory can produce: those with a token
KbValidDocuments == {doc \in KbDocuments : doc.normalized_tokens # <<>>}

\* normalised query texts, split into words
LocalQueries == {<<>>, <<"kot">>, <<"sobaka", "kot">>, <<"ryba">>, <<"ryba", "kot", "kot">>}

NonEmptySeqsUpTo(S, n) == SeqsUpTo(S, n) \ {<<>>}

LocalSearchCall ==
    /\ call = NoCall
    /\ \E documents \in NonEmptySeqsUpTo(KbDocuments, MaxDocs),
          text \in LocalQueries, limit \in Limits :
        /\ call' = [fn |-> "LocalIndex.search", documents |-> documents,
                    index |-> LocalIndexOf(documents), text |-> text, limit |-> limit,
                    ret |-> LocalIndexSearch(LocalIndexOf(documents), text, limit)]
        /\ UNCHANGED <<app, kb, lemma, book>>

----------------------------------------------------------------------------
(* Building the index: LocalIndex(documents) and LocalIndex.from_directory *)

\* no index object (None)
NoIndex == [documents |-> <<>>, doc_count |-> 0, doc_vectors |-> <<>>]

\* if not documents: raise RuntimeError
InitRejectsNothing(documents) == FALSE

InitRejects(documents) == documents = <<>>

\* LocalIndex(documents): raises, or returns the index object
LocalIndexNew(documents) ==
    IF InitRejects(documents)
    THEN [raised |-> TRUE, built |-> FALSE, index |-> NoIndex]
    ELSE [raised |-> FALSE, built |-> TRUE, index |-> LocalIndexOf(documents)]

LocalIndexInitCall ==
    /\ call = NoCall
    /\ \E documents \in SeqsUpTo(KbDocuments, MaxDocs) :
        /\ call' = [fn |-> "LocalIndex", documents |-> documents,
                    ret |-> LocalIndexNew(documents)]
        /\ UNCHANGED <<app, kb, lemma, book>>

\* A string of a JSON file is the list of its chunks: words, and "?" for a run
\* of punctuation; a string of white space only is the empty list.
\* A value is missing (None), a number, or a string.
Missing == [kind |-> "missing", chunks |-> <<>>]

Number == [kind |-> "number", chunks |-> <<>>]

Str(chunks) == [kind |-> "str", chunks |-> chunks]

\* the keys _collect_text_parts reads, in its order
TextKeys == <<"title", "text", "question", "answer">>

RECURSIVE Flatten(_)
Flatten(seqs) == IF seqs = <<>> THEN <<>> ELSE seqs[1] \o Flatten(Tail(seqs))

\* _collect_text_parts(item): the stripped non-empty strings of the four keys,
\* then "Ключевые слова: " with the truthy keywords, stripped and joined
_collect_text_parts(item) ==
    LET texts == SelectSeq([k \in 1..Len(TextKeys) |-> item.fields[TextKeys[k]]],
                           LAMBDA value : value.kind = "str" /\ value.chunks # <<>>)
        parts == [k \in 1..Len(texts) |-> texts[k].chunks]
        truthy == SelectSeq(item.keywords.items, LAMBDA keyword : keyword.truthy)
        keyword_values == [k \in 1..Len(truthy) |-> truthy[k].chunks]
    IN  IF item.keywords.is_list /\ keyword_values # <<>>
        THEN Append(parts, <<"Klyuchevye", "slova">> \o Flatten(keyword_values))
        ELSE parts

\* text.lower()
Lower(word) ==
    CASE word = "Kot" -> "kot"
      [] word = "Klyuchevye" -> "klyuchevye"
      [] OTHER -> word

\* _lemmatize_word: the normal form pymorphy gives
_lemmatize_word(word) ==
    CASE word = "klyuchevye" -> "klyuchevoy"
      [] word = "slova" -> "slovo"
      [] OTHER -> word

\* normalize_text(text, morph): the lemmas of the words _WORD_PATTERN finds in
\* text.lower(); punctuation is no word
normalize_text(chunks) ==
    LET words == SelectSeq(chunks, LAMBDA chunk : chunk # "?")
    IN  [k \in 1..Len(words) |-> _lemmatize_word(Lower(words[k]))]

\* the record is indexed when it has a text part and a normalised token
KeepsRecordWithText(text_parts, tokens) == text_parts # <<>>

KeepsRecord(text_parts, tokens) == text_parts # <<>> /\ tokens # <<>>

\* one pass of the loop over the records of a file: the documents it appends
ItemDocuments(raw_item, collection) ==
    IF ~raw_item.is_dict THEN <<>>
    ELSE LET text_parts == _collect_text_parts(raw_item)
             tokens == normalize_text(Flatten(text_parts))
         IN  IF KeepsRecord(text_parts, tokens)
             THEN <<[collection |-> collection, text |-> text_parts,
                     normalized_tokens |-> tokens]>>
             ELSE <<>>

\* one pass of the loop over the files: a file that cannot be read or parsed,
\* or whose JSON value is not a list, is skipped
FileDocuments(file, collection) ==
    IF file.kind # "list" THEN <<>>
    ELSE Flatten([i \in 1..Len(file.payload) |-> ItemDocuments(file.payload[i], collection)])

\* path.stem of the files of the directory, in sorted() order
FileStems == <<"faq", "rooms">>

\* LocalIndex.from_directory(directory, morph): raises, or returns cls(documents)
from_directory(directory) ==
    IF ~directory.exists
    THEN [raised |-> TRUE, built |-> FALSE, index |-> NoIndex, documents |-> <<>>]
    ELSE LET documents == Flatten([f \in 1..Len(directory.files) |->
                                      FileDocuments(directory.files[f], FileStems[f])])
         IN  IF documents = <<>>
             THEN [raised |-> TRUE, built |-> FALSE, index |-> NoIndex, documents |-> documents]
             ELSE LET new == LocalIndexNew(documents)
                  IN  [raised |-> new.raised, built |-> new.built, index |-> new.index,
                       documents |-> documents]

TextFields(title, text, question, answer) ==
    [title |-> title, text |-> text, question |-> question, answer |-> answer]

NoKeywords == [is_list |-> FALSE, items |-> <<>>]

\* records of the JSON files: a string instead of a mapping; a title and a
\* text; a blank title and a number as text; a text of punctuation only; only
\* key words, one of them the empty string
RawItems ==
    { [is_dict |-> FALSE, fields |-> TextFields(Missing, Missing, Missing, Missing),
       keywords |-> NoKeywords],
      [is_dict |-> TRUE, fields |-> TextFields(Str(<<"Kot">>), Str(<<"sidit", "?", "okno">>), Missing, Missing),
       keywords |-> NoKeywords],
      [is_dict |-> TRUE, fields |-> TextFields(Str(<<>>), Number, Missing, Missing),
       keywords |-> NoKeywords],
      [is_dict |-> TRUE, fields |-> TextFields(Missing, Str(<<"?">>), Missing, Missing),
       keywords |-> NoKeywords],
      [is_dict |-> TRUE, fields |-> TextFields(Missing, Missing, Missing, Missing),
       keywords |-> [is_list |-> TRUE,
                     items |-> <<[truthy |-> FALSE, chunks |-> <<>>],
                                 [truthy |-> TRUE, chunks |-> <<"sobaka">>]>>]] }

\* the files of the directory: unreadable or not JSON, a JSON object, a JSON list
KbFiles ==
    {[kind |-> "unreadable", payload |-> <<>>], [kind |-> "object", payload |-> <<>>]}
    \cup {[kind |-> "list", payload |-> payload] : payload \in SeqsUpTo(RawItems, MaxItems)}

\* the directory: missing, or its *.json files
KbDirectories ==
    {[exists |-> FALSE, files |-> <<>>]}
    \cup {[exists |-> TRUE, files |-> files] : files \in SeqsUpTo(KbFiles, Len(FileStems))}

FromDirectoryCall ==
    /\ call = NoCall
    /\ \E directory \in KbDirectories :
        /\ call' = [fn |-> "from_directory", directory |-> directory,
                    ret |-> from_directory(directory)]
        /\ UNCHANGED <<app, kb, lemma, book>>

----------------------------------------------------------------------------
(* A LocalIndex in use: one index object serves every search of the process *)

\* no index has been built yet
NoKb == [built |-> FALSE, documents |-> <<>>, index |-> <<>>, first |-> NoCall, between |-> FALSE]

\* the knowledge bases the shared index is built from
KbCorpora == UNION {[1..k -> KbDocuments] : k \in 1..2}

\* LocalIndex.encode(text): the dense vector, one entry per vocabulary index
LocalIndexEncode(index, text) ==
    LET sparse_vector == EncodeTokens(index.token_to_index, index.idf, text).vector
    IN  [i \in 1..index.dimension |->
            IF (i - 1) \in DOMAIN sparse_vector THEN sparse_vector[i - 1] ELSE 0]

\* the index object after search or encode has run with the encoded query
IndexAfterStoring(index, sparse_query) ==
    [index EXCEPT !.doc_vectors[1] = sparse_query.vector, !.doc_norms[1] = sparse_query.norm]

\* the index object after search or encode has run: neither assigns to an
\* attribute of self, nor changes a list or dict self holds
IndexAfter(index, sparse_query) == index

\* what is remembered of the calls on the index k after the call this: one
\* earlier call (any of them), and whether a different call has run since
SameCall(x, y) == x.fn = y.fn /\ x.text = y.text /\ x.limit = y.limit

Remembered(k, this) ==
    {[k EXCEPT !.first = this] : x \in IF k.first = NoCall THEN {1} ELSE {}}
    \cup {[k EXCEPT !.between = k.first # NoCall /\ (k.between \/ ~SameCall(this, k.first))]}

\* LocalIndex(documents), once per process
KbBuild ==
    /\ ~kb.built
    /\ \E documents \in KbCorpora :
        kb' = [NoKb EXCEPT !.built = TRUE, !.documents = documents,
                           !.index = LocalIndexOf(documents)]
    /\ UNCHANGED <<call, app, lemma, book>>

\* a request calls search on the shared index
KbSearch ==
    /\ kb.built
    /\ \E text \in LocalQueries, limit \in Limits :
        LET ret == LocalIndexSearch(kb.index, text, limit)
            this == [fn |-> "index.search", text |-> text, limit |-> limit,
                     ret |-> ret.results]
        IN  /\ call' = this
            /\ kb' \in Remembered([kb EXCEPT !.index = IndexAfter(kb.index, ret.sparse_query)], this)
    /\ UNCHANGED <<app, lemma, book>>

\* a request calls encode on the shared index
KbEncode ==
    /\ kb.built
    /\ \E text \in LocalQueries :
        LET sparse_query == EncodeTokens(kb.index.token_to_index, kb.index.idf, text)
            this == [fn |-> "index.encode", text |-> text, limit |-> 0,
                     ret |-> LocalIndexEncode(kb.index, text)]
        IN  /\ call' = this
            /\ kb' \in Remembered([kb EXCEPT !.index = IndexAfter(kb.index, sparse_query)], this)
    /\ UNCHANGED <<app, lemma, book>>

----------------------------------------------------------------------------
(* Start-up of the web application and its search route (chatbot/services.py, *)
(* chatbot/web.py)                                                            *)

\* Dependencies: local_index and qdrant may each be None

Deps(has_index, index, has_qdrant) ==
    [has_local_index |-> has_index, local_index |-> index, qdrant |-> has_qdrant]

NoDeps == Deps(FALSE, NoIndex, FALSE)

NoResponse == [kind |-> "none"]

\* app.stage follows create_app: "none", "create_dependencies" (loading the
\* embedding model), "from_directory", "indexing" (LocalIndex.__init__ encodes
\* the documents one by one), "dependencies" (built), "container", "serving";
\* "failed" when create_app raised
AppAt(stage) ==
    [stage |-> stage, dependencies |-> NoDeps, built |-> FALSE, container |-> FALSE,
     routes |-> FALSE, directory |-> <<>>, encoded |-> 0, response |-> NoResponse]

\* create_app has not been called yet
NoApp == AppAt("none")

\* the local knowledge base directory: missing, or the valid documents read from it
NoDirectory == <<"missing">>

Directories == {NoDirectory} \cup {<<"present", docs>> : docs \in SeqsUpTo(KbValidDocuments, MaxDocs)}

\* dependencies handed to create_app by its caller instead of being created
InjectedIndex == LocalIndexOf(<<CHOOSE d \in KbDocuments : d.collection = "rooms">>)

InjectedDeps ==
    {Deps(FALSE, NoIndex, FALSE), Deps(FALSE, NoIndex, TRUE),
     Deps(TRUE, InjectedIndex, FALSE), Deps(TRUE, InjectedIndex, TRUE)}

\* create_app(settings, dependencies): dependencies given, or create_dependencies is entered
CreateApp ==
    /\ app.stage = "none"
    /\ \/ \E deps \in InjectedDeps :
            app' = [AppAt("dependencies") EXCEPT !.dependencies = deps, !.built = TRUE]
       \/ app' = AppAt("create_dependencies")
    /\ UNCHANGED <<call, kb, lemma, book>>

\* create_dependencies: resolve_embedding_model returns, then the Qdrant client
\* is created (local_index stays None); or it raises and the local index is built
ResolveEmbeddingModel ==
    /\ app.stage = "create_dependencies"
    /\ \/ app' = [app EXCEPT !.stage = "dependencies", !.built = TRUE,
                             !.dependencies = Deps(FALSE, NoIndex, TRUE)]
       \/ \E directory \in Directories :
            app' = [app EXCEPT !.stage = "from_directory", !.directory = directory]
    /\ UNCHANGED <<call, kb, lemma, book>>

\* LocalIndex.from_directory: raises when the directory is missing or holds no
\* valid document, else LocalIndex.__init__ starts
FromDirectory ==
    /\ app.stage = "from_directory"
    /\ IF app.directory = NoDirectory \/ app.directory[2] = <<>>
       THEN app' = [app EXCEPT !.stage = "failed"]
       ELSE app' = [app EXCEPT !.stage = "indexing", !.encoded = 0]
    /\ UNCHANGED <<call, kb, lemma, book>>

\* the index object while __init__ runs: the first k document vectors exist
PartialIndex(documents, k) ==
    LET full == LocalIndexOf(documents)
    IN  [full EXCEPT !.doc_vectors = SubSeq(full.doc_vectors, 1, k),
                     !.doc_norms = SubSeq(full.doc_norms, 1, k)]

IndexComplete(index) == Len(index.doc_vectors) = index.doc_count

\* one pass of the loop of LocalIndex.__init__ that encodes the documents
EncodeDocument ==
    /\ app.stage = "indexing"
    /\ app.encoded < Len(app.directory[2])
    /\ app' = [app EXCEPT !.encoded = app.encoded + 1]
    /\ UNCHANGED <<call, kb, lemma, book>>

\* __init__ and from_directory return; create_dependencies returns Dependencies
\* with the index and without a Qdrant client
FinishDependencies ==
    /\ app.stage = "indexing"
    /\ app.encoded = Len(app.directory[2])
    /\ app' = [app EXCEPT !.stage = "dependencies", !.built = TRUE,
                          !.dependencies = Deps(TRUE, PartialIndex(app.directory[2], app.encoded), FALSE)]
    /\ UNCHANGED <<call, kb, lemma, book>>

\* AppContainer is built and stored in app.config["container"]
BuildContainer ==
    /\ app.stage = "dependencies"
    /\ app' = [app EXCEPT !.stage = "container", !.container = TRUE]
    /\ UNCHANGED <<call, kb, lemma, book>>

\* where in create_app register_routes(app) runs: after the container is stored
CanRegisterRoutesFirst(a) == a.stage \in {"create_dependencies", "from_directory", "indexing", "container"}

CanRegisterRoutes(a) == a.stage = "container"

RegisterRoutes ==
    /\ CanRegisterRoutes(app)
    /\ ~app.routes
    /\ app' = [app EXCEPT !.routes = TRUE,
                          !.stage = IF app.stage = "container" THEN "serving" ELSE app.stage]
    /\ UNCHANGED <<call, kb, lemma, book>>

\* ChatResponder.perform_semantic_search; queried lists the sources it asked
perform_semantic_search(deps, normalized, limit) ==
    IF ~deps.has_local_index
    THEN [results |-> <<>>, backend |-> "disabled", queried |-> {}]
    ELSE [results |-> LocalIndexSearch(deps.local_index, normalized, limit).results,
          backend |-> "local", queried |-> {"local"}]

\* limit of the /api/debug/search route
DebugSearchLimit == 10

\* POST /api/debug/search; the question is given by its normalised words.
\* _get_container raises when no container is stored; an empty message is
\* answered 400 without a search.
DebugSearch ==
    /\ app.routes
    /\ \E question \in LocalQueries :
        app' = [app EXCEPT !.response =
            IF ~app.container THEN [kind |-> "error"]
            ELSE IF question = <<>> THEN [kind |-> "message required"]
            ELSE [kind |-> "search", question |-> question,
                  found |-> perform_semantic_search(app.dependencies, question, DebugSearchLimit)]]
    /\ UNCHANGED <<call, kb, lemma, book>>

----------------------------------------------------------------------------
(* The lemma cache of normalize_text (chatbot/rag.py), shared by the request *)
(* threads of a worker (gunicorn.config.py)                                  *)

\* the request threads of one worker: threads = 2
Threads == 1..2

\* a thread outside normalize_text
Idle == [pc |-> "idle", words |-> <<>>, word |-> "", full |-> FALSE]

\* no call has attached a cache to the analyzer yet
NoLemma == [attached |-> FALSE, cache |-> {}, thread |-> [t \in Threads |-> Idle]]

\* the thread takes the next word of its text, or returns when none is left
NextWord(th) ==
    IF th.words = <<>> THEN Idle
    ELSE [pc |-> "get", words |-> Tail(th.words), word |-> th.words[1], full |-> FALSE]

\* normalize_text(text, morph) starts: _ensure_lemma_cache attaches the cache
\* when the analyzer has none, and the loop takes the first word
NormalizeStart(t) ==
    /\ lemma.thread[t].pc = "idle"
    /\ \E text \in SeqsUpTo({"w1", "w2", "w3", "w4"}, MaxWords) :
        lemma' = [lemma EXCEPT !.attached = TRUE,
                               !.thread[t] = NextWord([Idle EXCEPT !.words = text])]
    /\ UNCHANGED <<call, app, kb, book>>

\* lemma = cache.get(word): a hit goes on to the next word, a miss lemmatizes
CacheGet(t) ==
    /\ lemma.thread[t].pc = "get"
    /\ lemma' = [lemma EXCEPT !.thread[t] =
                    IF lemma.thread[t].word \in lemma.cache
                    THEN NextWord(lemma.thread[t])
                    ELSE [lemma.thread[t] EXCEPT !.pc = "check"]]
    /\ UNCHANGED <<call, app, kb, book>>

\* if len(cache) >= _LEMMA_CACHE_MAX_SIZE: after _lemmatize_word has returned
CacheCheck(t) ==
    /\ lemma.thread[t].pc = "check"
    /\ lemma' = [lemma EXCEPT !.thread[t].pc = "insert",
                               !.thread[t].full = (Cardinality(lemma.cache) >= _LEMMA_CACHE_MAX_SIZE)]
    /\ UNCHANGED <<call, app, kb, book>>

\* cache.clear() when the test held, then cache[word] = lemma
CacheInsert(t) ==
    /\ lemma.thread[t].pc = "insert"
    /\ lemma' = [lemma EXCEPT
                    !.cache = (IF lemma.thread[t].full THEN {} ELSE lemma.cache)
                              \cup {lemma.thread[t].word},
                    !.thread[t] = NextWord(lemma.thread[t])]
    /\ UNCHANGED <<call, app, kb, book>>

----------------------------------------------------------------------------
(* The booking dialog (chatbot/price_dialog.py) and the chat entry point that *)
(* runs it (chatbot/web.py)                                                   *)
(*                                                                            *)
(* Texts.  A message is the sequence of its lexical pieces after lower() and  *)
(* strip(): a maximal run of digits, a separator, or a piece of a word, in    *)
(* Latin transliteration.  "poslezavtra" is the two pieces "posle", "zavtra", *)
(* so that a substring test of the source is a test for a contiguous run of   *)
(* pieces.                                                                    *)
(*                                                                            *)
(* Dates.  A date is the number of its day, counted from the Monday on which  *)
(* the clock starts (2026-11-02); the clock counts seconds.                   *)

MAX_ADULTS == 11

MAX_TOTAL_GUESTS == 11

MAX_STAY_DAYS == 30

MIN_STAY_DAYS == 1

\* BookingSession._ttl_seconds
_ttl_seconds == 3600

\* DialogStep
INTENT_DETECTION == 0

CHECKIN_DATE == 1

NIGHTS_COUNT == 2

ADULTS_COUNT == 3

CHILDREN_INFO == 4

\* sub in text, for two str
Contains(sub, text) ==
    \E i \in 0..(Len(text) - Len(sub)) :
        \A j \in 1..Len(sub) : text[i + j] = sub[j]

\* the digit runs a message can hold, with int() of each; a piece is made of
\* digits (str.isdigit, \d+) when it is one of them
DigitRuns == [r \in {"0", "2", "3", "5", "9", "10", "11", "31"} |->
                CASE r = "0" -> 0 [] r = "2" -> 2 [] r = "3" -> 3 [] r = "5" -> 5
                  [] r = "9" -> 9 [] r = "10" -> 10 [] r = "11" -> 11 [] OTHER -> 31]

\* the result of a function that returned None, or an int
None == [none |-> TRUE, value |-> 0]

Some(v) == [none |-> FALSE, value |-> v]

\* parse_natural_date(user_input), today the day of datetime.today(): the
\* tests of the source in the order of the source
parse_natural_date(text, today) ==
    LET \* a parsed date with no default number of nights
        DateOnly(day) == [date |-> Some(day), nights |-> None]
        \* today + relativedelta(weekday=SA(+n)): the n-th Saturday from today
        \* on; weekday() of a day is day % 7, Monday 0
        RelativeSaturday(n) == today + ((5 - (today % 7)) % 7) + 7 * (n - 1)
        \* today + relativedelta(months=1): every today of the model lies in a
        \* month of 30 days that a longer month follows
        RelativeMonth == today + 30
        \* the matches of r"cherez\s+(\d+)\s+d": where "cherez" stands and where the digits
        ThroughMatches ==
            {m \in (1..Len(text)) \X (1..Len(text)) :
                /\ text[m[1]] = "cherez"
                /\ m[1] + 1 < m[2]
                /\ \A i \in (m[1] + 1)..(m[2] - 1) : text[i] = " "
                /\ text[m[2]] \in DOMAIN DigitRuns
                /\ \E e \in (m[2] + 2)..Len(text) :
                      /\ text[e] \in {"dnya", "dney"}
                      /\ \A i \in (m[2] + 1)..(e - 1) : text[i] = " "}
        \* re.search: the digits of the leftmost match
        ThroughDays ==
            LET m == CHOOSE x \in ThroughMatches : \A y \in ThroughMatches : x[1] <= y[1]
            IN  DigitRuns[text[m[2]]]
        \* the explicit dates a message can be, with the day datetime.strptime
        \* gives under "%Y-%m-%d", "%d.%m.%Y" or "%d/%m/%Y"
        StrptimeDates ==
            [d \in {"2026-11-05", "05.11.2026", "05/11/2026", "2026-10-30", "9999-12-31"} |->
                CASE d = "2026-10-30" -> 0 - 3
                  [] d = "9999-12-31" -> MaxDay
                  [] OTHER -> 3]
        \* the loop over date_formats, None when every format raises
        Strptime ==
            IF Len(text) = 1 /\ text[1] \in DOMAIN StrptimeDates
            THEN Some(StrptimeDates[text[1]])
            ELSE None
    IN  IF Contains(<<"zavtra">>, text) THEN DateOnly(today + 1)
        ELSE IF Contains(<<"posle", "zavtra">>, text) THEN DateOnly(today + 2)
        ELSE IF \/ Contains(<<"na", " ", "vyhodnyh">>, text)
                \/ Contains(<<"eti", " ", "vyhodnye">>, text)
        THEN [date |-> Some(RelativeSaturday(1)), nights |-> Some(2)]
        ELSE IF Contains(<<"sleduyushch">>, text) /\ Contains(<<"vyhodnyh">>, text)
        THEN [date |-> Some(RelativeSaturday(2)), nights |-> Some(2)]
        ELSE IF Contains(<<"cherez", " ", "nedelyu">>, text) THEN DateOnly(today + 7)
        ELSE IF Contains(<<"cherez", " ", "mesyac">>, text) THEN DateOnly(RelativeMonth)
        ELSE IF ThroughMatches # {} THEN DateOnly(today + ThroughDays)
        ELSE [date |-> Strptime, nights |-> None]

\* one call of parse_natural_date, on one of the days a message arrives
ParseDateCall ==
    /\ call = NoCall
    /\ \E today \in 0..MaxToday :
       \E text \in { <<"zavtra">>,
                     <<"posle", "zavtra">>,
                     <<"zaezd", " ", "posle", "zavtra">>,
                     <<"na", " ", "vyhodnyh">>,
                     <<"eti", " ", "vyhodnye">>,
                     <<"na", " ", "sleduyushch", "ih", " ", "vyhodnyh">>,
                     <<"cherez", " ", "nedelyu">>,
                     <<"cherez", " ", "mesyac">>,
                     <<"cherez", " ", "3", " ", "dnya">>,
                     <<"cherez", " ", " ", "5", " ", "dney">>,
                     <<"2026-11-05">>,
                     <<"05.11.2026">>,
                     <<"2026-10-30">>,
                     <<"9999-12-31">>,
                     <<"privet">>,
                     <<"2">> } :
        call' = [fn |-> "parse_natural_date", text |-> text, today |-> today,
                 ret |-> parse_natural_date(text, today)]
    /\ UNCHANGED <<app, kb, lemma, book>>

\* extract_number(text): int() of the first run of digits, None without one
extract_number(text) ==
    LET at == {i \in 1..Len(text) : text[i] \in DOMAIN DigitRuns}
    IN  IF at = {} THEN None
        ELSE Some(DigitRuns[text[CHOOSE i \in at : \A j \in at : i <= j]])

\* dict: the empty one, d[k] = v, d.pop(k, None)
EmptyDict == [k \in {} |-> 0]

Put(d, k, v) == [x \in (DOMAIN d) \cup {k} |-> IF x = k THEN v ELSE d[x]]

Pop(d, k) == [x \in (DOMAIN d) \ {k} |-> d[x]]

\* the test of _cleanup_expired_sessions, with the ttl itself already too old
ExpiredFromTtl(session, now) == now - session.last_activity >= _ttl_seconds

\* the test of _cleanup_expired_sessions
Expired(session, now) == now - session.last_activity > _ttl_seconds

\* _cleanup_expired_sessions(now), on the table _SESSIONS
_cleanup_expired_sessions(sessions, now) ==
    [u \in {k \in DOMAIN sessions : ~Expired(sessions[k], now)} |-> sessions[u]]

\* BookingSession.load(user_id): the table after it; the session is the entry
\* of the user, a BookingSession(user_id=user_id) when it had none
load(sessions, user, now) ==
    LET cleaned == _cleanup_expired_sessions(sessions, now)
    IN  IF user \in DOMAIN cleaned THEN cleaned
        ELSE Put(cleaned, user,
                 [step |-> INTENT_DETECTION, info |-> EmptyDict, last_activity |-> now])

\* the result of a handler: the session object, whether it is in the table
\* afterwards, the reply (answer names the message, "none" when the handler
\* returned None), and whether get_room_price_from_shelter was called
Result(session, stored, answer, lookup) ==
    [session |-> session, stored |-> stored, answer |-> answer,
     mode |-> IF answer = "none" THEN "none" ELSE "booking", lookup |-> lookup]

\* BookingDialog._respond(message): save() keeps the session in the table
_respond(session, answer) == Result(session, TRUE, answer, FALSE)

\* a _finish that saves the session
_finish_saving(session, answer) == Result(session, TRUE, answer, TRUE)

\* BookingDialog._finish(message), after the price lookup: delete()
_finish(session, answer) == Result(session, FALSE, answer, TRUE)

\* the except branch of BookingDialog.handle: delete() and the apology
Failed(session, lookup) == Result(session, FALSE, "error", lookup)

\* BookingDialog._handle_intent(): None leaves the session as load() stored it
_handle_intent(session, text) ==
    LET \* _is_booking_intent(): a word whose lemma is in PRICE_KEYWORD_LEMMAS, or the phrase
        _is_booking_intent ==
            \/ \E i \in 1..Len(text) : text[i] \in {"cena", "stoimost", "nomer", "noch"}
            \/ Contains(<<"skolko", " ", "stoit">>, text)
    IN  IF ~_is_booking_intent THEN Result(session, TRUE, "none", FALSE)
        ELSE _respond([session EXCEPT !.step = CHECKIN_DATE], "ask_checkin")

\* BookingDialog._handle_checkin(); date + timedelta raises OverflowError past the last day
_handle_checkin(session, text, today) ==
    LET parsed == parse_natural_date(text, today)
    IN  IF parsed.date.none THEN _respond(session, "reprompt_checkin")
        ELSE IF ~parsed.nights.none /\ parsed.nights.value # 0
        THEN IF parsed.date.value + parsed.nights.value > MaxDay THEN Failed(session, FALSE)
             ELSE _respond([session EXCEPT
                               !.info = Put(Put(session.info, "date_from", parsed.date.value),
                                            "date_to", parsed.date.value + parsed.nights.value),
                               !.step = ADULTS_COUNT],
                           "ask_adults")
        ELSE _respond([session EXCEPT
                          !.info = Put(session.info, "date_from", parsed.date.value),
                          !.step = NIGHTS_COUNT],
                      "ask_nights")

\* a range test of _handle_nights without the upper end
NightsRejectedBelow(nights) == nights < MIN_STAY_DAYS

\* the range tests of _handle_nights
NightsRejected(nights) == nights < MIN_STAY_DAYS \/ nights > MAX_STAY_DAYS

\* BookingDialog._handle_nights(); start_date + timedelta raises OverflowError
\* past the last day
_handle_nights(session, text) ==
    LET nights == extract_number(text)
    IN  IF nights.none THEN _respond(session, "reprompt_nights")
        ELSE IF NightsRejected(nights.value) THEN _respond(session, "reprompt_nights")
        ELSE IF session.info["date_from"] + nights.value > MaxDay THEN Failed(session, FALSE)
        ELSE _respond([session EXCEPT
                          !.info = Put(session.info, "date_to",
                                       session.info["date_from"] + nights.value),
                          !.step = ADULTS_COUNT],
                      "ask_adults")

\* get_room_price_from_shelter(date_from, date_to, adults, kids_ages): the
\* message it returns, "raises" when an exception leaves it.  service is what
\* the Shelter service does with the request: it answers with variants or with
\* none, the request times out or fails, the token is not configured, or the
\* answer is JSON of another shape and the function raises.
get_room_price_from_shelter(date_from, date_to, adults, kids_ages, today, service) ==
    LET \* validate_dates(date_from, date_to): "" when valid
        validate_dates ==
            IF date_from < today THEN "checkin_in_past"
            ELSE IF date_to <= date_from THEN "checkout_not_later"
            ELSE IF date_to - date_from < MIN_STAY_DAYS THEN "stay_too_short"
            ELSE IF date_to - date_from > MAX_STAY_DAYS THEN "stay_too_long"
            ELSE ""
        \* validate_guests(adults, kids_ages): "" when valid
        validate_guests ==
            IF adults < 1 THEN "no_adult"
            ELSE IF adults > MAX_ADULTS THEN "too_many_adults"
            ELSE IF adults + Len(kids_ages) > MAX_TOTAL_GUESTS THEN "too_many_guests"
            ELSE IF \E i \in 1..Len(kids_ages) : kids_ages[i] < 0 THEN "negative_age"
            ELSE IF \E i \in 1..Len(kids_ages) : kids_ages[i] >= 12 THEN "child_is_adult"
            ELSE ""
    IN  IF validate_dates # "" THEN validate_dates
        ELSE IF validate_guests # "" THEN validate_guests
        ELSE service

\* _handle_adults with info["adults"] written before the range tests
_handle_adults_storing_first(session, text, today, service) ==
    LET adults == extract_number(text)
    IN  IF adults.none THEN _respond(session, "reprompt_adults")
        ELSE LET with == [session EXCEPT !.info = Put(session.info, "adults", adults.value)]
                 result == get_room_price_from_shelter(
                               session.info["date_from"], session.info["date_to"],
                               adults.value, <<>>, today, service)
             IN  IF adults.value < 1 \/ adults.value > MAX_ADULTS
                 THEN _respond(with, "reprompt_adults")
                 ELSE IF MAX_TOTAL_GUESTS - adults.value <= 0
                 THEN IF result = "raises" THEN Failed(with, TRUE) ELSE _finish(with, result)
                 ELSE _respond([with EXCEPT !.step = CHILDREN_INFO], "ask_children")

\* BookingDialog._handle_adults()
_handle_adults(session, text, today, service) ==
    LET adults == extract_number(text)
    IN  IF adults.none THEN _respond(session, "reprompt_adults")
        ELSE IF adults.value < 1 \/ adults.value > MAX_ADULTS
        THEN _respond(session, "reprompt_adults")
        ELSE LET with == [session EXCEPT !.info = Put(session.info, "adults", adults.value)]
                 result == get_room_price_from_shelter(
                               session.info["date_from"], session.info["date_to"],
                               adults.value, <<>>, today, service)
             IN  IF MAX_TOTAL_GUESTS - adults.value <= 0
                 THEN IF result = "raises" THEN Failed(with, TRUE) ELSE _finish(with, result)
                 ELSE _respond([with EXCEPT !.step = CHILDREN_INFO], "ask_children")

\* str.strip() of a chunk
RECURSIVE Strip(_)
Strip(chunk) ==
    IF chunk # <<>> /\ chunk[1] = " " THEN Strip(Tail(chunk))
    ELSE IF chunk # <<>> /\ chunk[Len(chunk)] = " " THEN Strip(SubSeq(chunk, 1, Len(chunk) - 1))
    ELSE chunk

\* text.split(",")
RECURSIVE SplitCommas(_)
SplitCommas(text) ==
    LET at == {i \in 1..Len(text) : text[i] = ","}
    IN  IF at = {} THEN <<text>>
        ELSE LET first == CHOOSE i \in at : \A j \in at : i <= j
             IN  <<SubSeq(text, 1, first - 1)>> \o SplitCommas(SubSeq(text, first + 1, Len(text)))

\* BookingDialog._parse_children_ages(): the ages, or the ValueError it raises
_parse_children_ages(text) ==
    LET split == SplitCommas(text)
        \* the stripped chunks the loop does not skip
        chunks == SelectSeq([i \in 1..Len(split) |-> Strip(split[i])],
                            LAMBDA chunk : chunk # <<>>)
        \* chunk.isdigit()
        IsDigit(chunk) == Len(chunk) = 1 /\ chunk[1] \in DOMAIN DigitRuns
    IN  IF text \in { <<"net">>, <<"detey", " ", "net">>, <<"bez", " ", "detey">> }
        THEN [raised |-> FALSE, ages |-> <<>>]
        ELSE IF \E i \in 1..Len(chunks) : ~IsDigit(chunks[i])
        THEN [raised |-> TRUE, ages |-> <<>>]
        ELSE [raised |-> FALSE, ages |-> [i \in 1..Len(chunks) |-> DigitRuns[chunks[i][1]]]]

\* BookingDialog._handle_children()
_handle_children(session, text, today, service) ==
    LET parsed == _parse_children_ages(text)
        kids_ages == parsed.ages
        adults == session.info["adults"]
        result == get_room_price_from_shelter(
                      session.info["date_from"], session.info["date_to"],
                      adults, kids_ages, today, service)
    IN  IF parsed.raised THEN _respond(session, "reprompt_children")
        ELSE IF ~(\A i \in 1..Len(kids_ages) : 0 <= kids_ages[i] /\ kids_ages[i] <= 11)
        THEN _respond(session, "reprompt_children")
        ELSE IF adults + Len(kids_ages) > MAX_TOTAL_GUESTS
        THEN _respond(session, "reprompt_children")
        ELSE IF result = "raises" THEN Failed(session, TRUE)
        ELSE _finish(session, result)

\* BookingDialog.handle(): the handler of the step of the session
handle(session, text, today, service) ==
    IF session.step = INTENT_DETECTION THEN _handle_intent(session, text)
    ELSE IF session.step = CHECKIN_DATE THEN _handle_checkin(session, text, today)
    ELSE IF session.step = NIGHTS_COUNT THEN _handle_nights(session, text)
    ELSE IF session.step = ADULTS_COUNT THEN _handle_adults(session, text, today, service)
    ELSE IF session.step = CHILDREN_INFO THEN _handle_children(session, text, today, service)
    ELSE _finish(session, "error")

CANCEL_COMMANDS == { <<"otmena">>, <<"stop">> }

\* the users of the chat (session_id of the request)
Users == {"u1", "u2"}

\* the messages the first user sends; the second only opens a dialog
BookTexts ==
    { <<"cena">>,
      <<"otmena">>,
      <<"zavtra">>,
      <<"na", " ", "vyhodnyh">>,
      <<"9999-12-31">>,
      <<"0">>,
      <<"10">>,
      <<"11">>,
      <<"31">>,
      <<"net">>,
      <<"5", ",", " ", "9">> }

\* the process has started: empty _SESSIONS.  last is the last message
\* served: who sent it, the step that handled it, the reply, whether the price
\* was looked up, and whose sessions the load dropped; it is as here when no
\* message has been served since the clock last moved
NoBook ==
    [now |-> 0, ticks |-> 0, sessions |-> EmptyDict,
     last |-> [user |-> "", text |-> <<>>, step |-> INTENT_DETECTION, answer |-> "none",
               mode |-> "none", lookup |-> FALSE, dropped |-> {}]]

\* ChatResponder.handle(session_id, question) up to the reply of the booking
\* dialog: a cancel command clears the session of the user; any other message
\* goes to handle_price_dialog, which loads the session (dropping the expired
\* ones), touches it and runs the handler of its step.  The outcome of the
\* service is an input of the steps that look the price up, and of no other.
Message(user, text) ==
    LET loaded == load(book.sessions, user, book.now)
        \* BookingSession.touch()
        session == [loaded[user] EXCEPT !.last_activity = book.now]
        \* datetime.today(), as a day
        today == book.now \div 86400
        looks == text \notin CANCEL_COMMANDS /\ handle(session, text, today, "variants").lookup
    IN  /\ \E service \in (IF looks
                           THEN {"variants", "no_variants", "timeout", "request_error",
                                 "no_token", "raises"}
                           ELSE {"variants"}) :
            LET result == handle(session, text, today, service)
            IN  book' =
                    IF text \in CANCEL_COMMANDS
                    THEN [book EXCEPT
                            !.sessions = Pop(book.sessions, user),
                            !.last = [user |-> user, text |-> text, step |-> INTENT_DETECTION,
                                      answer |-> "cancelled", mode |-> "none", lookup |-> FALSE,
                                      dropped |-> {}]]
                    ELSE [book EXCEPT
                            !.sessions = IF result.stored THEN Put(loaded, user, result.session)
                                         ELSE Pop(loaded, user),
                            !.last = [user |-> user, text |-> text, step |-> session.step,
                                      answer |-> result.answer, mode |-> result.mode,
                                      lookup |-> result.lookup,
                                      dropped |-> (DOMAIN book.sessions) \
                                                  DOMAIN _cleanup_expired_sessions(book.sessions, book.now)]]
        /\ UNCHANGED <<call, app, kb, lemma>>

\* time passes between two messages: a second, the ttl of a session, or a day
Tick ==
    /\ book.ticks < MaxTicks
    /\ \E wait \in {1, _ttl_seconds, 86400} :
        book' = [book EXCEPT !.now = @ + wait, !.ticks = @ + 1, !.last = NoBook.last]
    /\ UNCHANGED <<call, app, kb, lemma>>

----------------------------------------------------------------------------
(* Specifications *)

Init ==
    /\ call = NoCall
    /\ app = NoApp
    /\ kb = NoKb
    /\ lemma = NoLemma
    /\ book = NoBook

Next ==
    \/ MinMaxCall
    \/ HybridCall
    \/ RagCall
    \/ AppCall
    \/ LocalSearchCall
    \/ LocalIndexInitCall
    \/ FromDirectoryCall
    \/ Bm25Call
    \/ ExtractCall
    \/ ParseDateCall

Spec == Init /\ [][Next]_vars

NextApp ==
    \/ CreateApp
    \/ ResolveEmbeddingModel
    \/ FromDirectory
    \/ EncodeDocument
    \/ FinishDependencies
    \/ BuildContainer
    \/ RegisterRoutes
    \/ DebugSearch

SpecApp == Init /\ [][NextApp]_vars

NextKb ==
    \/ KbBuild
    \/ KbSearch
    \/ KbEncode

SpecKb == Init /\ [][NextKb]_vars

NextLemma ==
    \E t \in Threads :
        \/ NormalizeStart(t)
        \/ CacheGet(t)
        \/ CacheCheck(t)
        \/ CacheInsert(t)

SpecLemma == Init /\ [][NextLemma]_vars

NextBook ==
    \/ \E user \in Users :
          \E text \in (IF user = "u1" THEN BookTexts ELSE { <<"cena">>, <<"zavtra">> }) :
              Message(user, text)
    \/ Tick

SpecBook == Init /\ [][NextBook]_vars

----------------------------------------------------------------------------
(* Claims *)

IsMinMax == call.fn = "_minmax_norm"

IsHybrid == call.fn = "search"

IsRag == call.fn = "rag.search_all_collections"

IsAppAgg == call.fn = "app.search_all_collections"

IsLocal == call.fn = "LocalIndex.search"

AllEqual(vals) == \A i, j \in 1..Len(vals) : vals[i] = vals[j]

\* C1: for a score list whose maximum equals its minimum (all entries equal,
\* a one-element list included) _minmax_norm returns a list of the same
\* length whose entries are all exactly 0; for the empty list it returns the
\* empty list.
C1_DegenerateIsZero ==
    IsMinMax =>
        /\ call.vals = <<>> => call.ret = <<>>
        /\ (call.vals # <<>> /\ PyMax(call.vals) = PyMin(call.vals)) =>
              /\ Len(call.ret) = Len(call.vals)
              /\ \A i \in 1..Len(call.ret) : call.ret[i].num = 0 /\ call.ret[i].den > 0

C1_Witness ==
    /\ IsMinMax
    /\ Len(call.vals) = 3
    /\ PyMax(call.vals) = PyMin(call.vals)
    /\ call.ret = <<Zero, Zero, Zero>>

\* what C2 says of a list whose maximum and minimum are told apart
MinMaxMapped(vals, ret) ==
    LET vmin == PyMin(vals)
        vmax == PyMax(vals)
    IN  \A i \in 1..Len(vals) :
            /\ vals[i] = vmin => ret[i].num = 0
            /\ vals[i] = vmax => ret[i].num = ret[i].den
            /\ RatEq(ret[i], Rat(vals[i] - vmin, vmax - vmin))

MinMaxShape(vals, ret) ==
    /\ Len(ret) = Len(vals)
    /\ \A i \in 1..Len(ret) : InUnit(ret[i])

\* C2 as stated: for every non-empty score list _minmax_norm returns one value
\* per input, each in [0,1], and whenever the maximum differs from the minimum
\* the minimum maps to 0, the maximum to 1 and v to (v - min) / (max - min).
C2_Original ==
    (IsMinMax /\ call.vals # <<>>) =>
        /\ MinMaxShape(call.vals, call.ret)
        /\ PyMax(call.vals) # PyMin(call.vals) => MinMaxMapped(call.vals, call.ret)

\* C2 as amended: the mapping to (v - min) / (max - min) holds whenever
\* |max - min| exceeds 1e-9 times the larger of |max| and |min|; when the two
\* differ by no more than that, every entry maps to 0.
C2_CloseIsZero ==
    (IsMinMax /\ call.vals # <<>>) =>
        LET d == PyMax(call.vals) - PyMin(call.vals)
            m == Max2(Abs(PyMax(call.vals)), Abs(PyMin(call.vals)))
        IN  /\ MinMaxShape(call.vals, call.ret)
            /\ d > m \div RelTolInv => MinMaxMapped(call.vals, call.ret)
            /\ d <= m \div RelTolInv => \A i \in 1..Len(call.ret) : call.ret[i].num = 0

C2_Witness ==
    /\ IsMinMax
    /\ call.vals = <<RelTolInv, 0, RelTolInv + 1>>
    /\ call.ret[1].num = RelTolInv
    /\ call.ret[2].num = 0
    /\ call.ret[3].num = call.ret[3].den

\* C3: in the hybrid search, with alpha = 1 the blended score of every
\* candidate equals its normalised semantic score, and with alpha = 0 its
\* normalised BM25 score.
C3_BlendCollapses ==
    (IsHybrid /\ ~call.ret.empty) =>
        \A i \in 1..Len(call.raw) :
            /\ call.alpha = Rat(1, 1) => RatEq(call.ret.blended[i], call.ret.sem_norm[i])
            /\ call.alpha = Rat(0, 1) => RatEq(call.ret.blended[i], call.ret.bm25_norm[i])

C3_Witness ==
    /\ IsHybrid
    /\ call.alpha = Rat(1, 1)
    /\ Len(call.raw) = 3
    /\ \E i, j \in 1..3 :
          /\ RatLess(call.ret.sem_norm[i], call.ret.sem_norm[j])
          /\ RatLess(call.ret.bm25_norm[j], call.ret.bm25_norm[i])
          /\ RatEq(call.ret.blended[i], call.ret.sem_norm[i])

SemScores(raw) == [i \in 1..Len(raw) |-> IF raw[i].numeric THEN raw[i].score ELSE 0]

\* C4: whatever alpha is passed, the alpha used lies in [0,1] (a value below 0
\* becomes 0, one above 1 becomes 1), every blended score lies in [0,1], and
\* every blended score is 0 when the semantic scores are all equal and the
\* BM25 scores are all equal.
C4_BlendedInUnit ==
    (IsHybrid /\ ~call.ret.empty) =>
        /\ InUnit(call.ret.alpha)
        /\ RatLess(call.alpha, Zero) => call.ret.alpha.num = 0
        /\ RatLess(Rat(1, 1), call.alpha) => call.ret.alpha.num = call.ret.alpha.den
        /\ InUnit(call.alpha) => RatEq(call.ret.alpha, call.alpha)
        /\ \A i \in 1..Len(call.raw) : InUnit(call.ret.blended[i])
        /\ (AllEqual(SemScores(call.raw)) /\ AllEqual(call.ret.bm25)) =>
              \A i \in 1..Len(call.raw) : call.ret.blended[i].num = 0

C4_Witness ==
    /\ IsHybrid
    /\ call.alpha = Rat(3, 2)
    /\ Len(call.raw) = 3
    /\ ~AllEqual(SemScores(call.raw))
    /\ ~AllEqual(call.ret.bm25)
    /\ call.ret.alpha = Rat(1, 1)

\* the results of the last search call and the candidates it had to choose from
SearchResults ==
    IF IsHybrid THEN call.ret.final ELSE call.ret.results

SearchCandidates ==
    IF IsHybrid THEN Len(call.raw)
    ELSE IF IsLocal THEN Len(call.ret.scored)
    ELSE Len(call.ret.aggregated)

\* C5 as stated: for LocalIndex.search, search_all_collections and the hybrid
\* search and every limit, the number of results is at most limit, and is the
\* number of surviving candidates when that is smaller than limit.
C5_Original ==
    (IsLocal \/ IsRag \/ IsHybrid) =>
        /\ Len(SearchResults) <= call.limit
        /\ SearchCandidates < call.limit => Len(SearchResults) = SearchCandidates

\* C5 as amended: for every limit >= 0, LocalIndex.search and
\* search_all_collections return min(limit, candidates) results; the hybrid
\* search cuts at max(1, limit), so it returns min(limit, candidates) results
\* for limit >= 1 and one result for limit <= 0 when it has a candidate.
C5_LimitRespected ==
    /\ (IsLocal \/ IsRag \/ IsAppAgg) =>
          (call.limit >= 0 => Len(SearchResults) = Min2(call.limit, SearchCandidates))
    /\ IsHybrid =>
          /\ call.limit >= 1 => Len(SearchResults) = Min2(call.limit, SearchCandidates)
          /\ call.limit <= 0 => Len(SearchResults) = Min2(1, SearchCandidates)

C5_Witness ==
    /\ IsHybrid
    /\ call.limit = 0
    /\ Len(call.raw) = 2
    /\ Len(call.ret.final) = 1

\* the hits a collection contributes to an aggregated search
CollectedFrom(c) ==
    IF ~call.backend[c].ok THEN <<>>
    ELSE IF IsRag
         THEN SelectSeq(call.backend[c].hits,
                        LAMBDA hit : extract_payload_text(hit.payload) # <<>>)
         ELSE call.backend[c].hits

CollectedCount ==
    SumSeq([k \in 1..Len(call.collections) |-> Len(CollectedFrom(call.collections[k]))])

\* C6: in a multi-collection search a collection whose backend call raises
\* counts as an empty result set: the search does not raise, every collection
\* is still queried, every result comes from a collection that answered, and
\* (for a limit >= 0) the results are the candidates of the answering
\* collections, capped at limit.
C6_FailedCollectionSkipped ==
    (IsRag \/ IsAppAgg) =>
        /\ ~call.ret.raised
        /\ call.ret.queried = call.collections
        /\ \A p \in 1..Len(call.ret.results) :
              LET r == call.ret.results[p]
                  from == CollectedFrom(r.collection)
              IN  /\ call.backend[r.collection].ok
                  /\ \E h \in 1..Len(from) : from[h].id = r.id /\ from[h].score = r.score
        /\ call.limit >= 0 => Len(call.ret.results) = Min2(call.limit, CollectedCount)

C6_Witness ==
    /\ IsRag
    /\ ~call.backend["faq"].ok
    /\ call.backend["rooms"].ok
    /\ call.limit = 3
    /\ Len(call.ret.results) = 2
    /\ \A p \in 1..2 : call.ret.results[p].collection = "rooms"

\* C7: in the result of one aggregated search a (collection, id) pair appears
\* at most once, also when the backend returns the same hit twice, and hits
\* with the same text from two collections are both kept.
C7_NoDuplicatePair ==
    (IsRag \/ IsAppAgg) =>
        \A p, q \in 1..Len(call.ret.results) :
            (call.ret.results[p].collection = call.ret.results[q].collection
                /\ call.ret.results[p].id = call.ret.results[q].id) => p = q

\* the score a search ranks by
RankLess(x, y) ==
    IF IsHybrid THEN RatLess(x.score_blended, y.score_blended) ELSE x.score < y.score

Collected ==
    IF IsHybrid
    THEN [i \in 1..Len(call.raw) |-> [score_blended |-> call.ret.blended[i]]]
    ELSE call.ret.aggregated

\* C8: the list an aggregated or hybrid search returns is in non-increasing
\* score order and is a top-k selection: every collected candidate whose score
\* is strictly greater than that of some returned one is returned itself.
C8_SortedTopK ==
    ((IsRag \/ IsAppAgg \/ IsHybrid) /\ (IsHybrid => ~call.ret.empty)) =>
        LET res == SearchResults
        IN  /\ \A p, q \in 1..Len(res) : p < q => ~RankLess(res[p], res[q])
            /\ \A p \in 1..Len(res) :
                  Cardinality({i \in 1..Len(Collected) : RankLess(res[p], Collected[i])})
                      = Cardinality({q \in 1..Len(res) : RankLess(res[p], res[q])})

C8_Witness ==
    /\ IsRag
    /\ call.limit = 2
    /\ Len(call.ret.aggregated) = 3
    /\ call.ret.aggregated[1].score < call.ret.aggregated[2].score
    /\ Len(call.ret.results) = 2
    /\ call.ret.results[1].score > call.ret.results[2].score

\* C9: the search step of the chat service queries every source that exists,
\* the local index when present and the dense backend when its client is
\* configured, and reports the search as disabled only when neither exists.
C9_QueriesEverySource ==
    app.response.kind = "search" =>
        LET deps == app.dependencies
            found == app.response.found
        IN  /\ deps.has_local_index => "local" \in found.queried
            /\ deps.qdrant => "qdrant" \in found.queried
            /\ found.backend = "disabled" => (~deps.has_local_index /\ ~deps.qdrant)

\* C10: no search is served before index construction has completed: routes
\* exist only once the dependencies are built and stored in the container,
\* with every document of a local index encoded; a search handled without an
\* index is answered empty and "disabled", and a search answered from the
\* local index used the completed index.
C10_NoSearchBeforeIndexBuilt ==
    /\ app.routes =>
          /\ app.built
          /\ app.container
          /\ app.dependencies.has_local_index => IndexComplete(app.dependencies.local_index)
    /\ app.response.kind # "none" => app.routes
    /\ app.response.kind = "search" =>
          /\ ~app.dependencies.has_local_index =>
                (app.response.found.backend = "disabled" /\ app.response.found.results = <<>>)
          /\ app.response.found.backend = "local" =>
                /\ app.dependencies.has_local_index
                /\ IndexComplete(app.dependencies.local_index)

C10_Witness ==
    /\ app.response.kind = "search"
    /\ app.response.found.backend = "local"
    /\ app.dependencies.local_index.doc_count = 3
    /\ Len(app.response.found.results) >= 2

\* the tokens of the query that the vocabulary of the index knows
KnownQueryTokens == TokensOf(call.text) \cap DOMAIN call.index.token_to_index

\* the positions (in the index) of the documents of a result list
DocsOf(results) == [p \in 1..Len(results) |-> results[p].doc]

\* C12: every result of LocalIndex.search has a score strictly greater than 0,
\* and before truncation a document is a candidate exactly when it shares at
\* least one in-vocabulary token with the query.
C12_PositiveIffShared ==
    IsLocal =>
        /\ \A p \in 1..Len(call.ret.results) : call.ret.results[p].score > 0
        /\ \A k \in 1..Len(call.ret.scored) : call.ret.scored[k].score > 0
        /\ \A d \in 1..Len(call.documents) :
              (\E k \in 1..Len(call.ret.scored) : call.ret.scored[k].doc = d)
                  <=> (KnownQueryTokens \cap TokensOf(call.documents[d].normalized_tokens) # {})

C12_Witness ==
    /\ IsLocal
    /\ Len(call.documents) = 3
    /\ call.text = <<"ryba", "kot", "kot">>
    /\ Len(call.ret.scored) = 2
    /\ \E d \in 1..3 :
          /\ call.documents[d].normalized_tokens # <<>>
          /\ \A k \in 1..2 : call.ret.scored[k].doc # d
    /\ Len(call.ret.results) = 2

\* C13: LocalIndex.search returns its results in non-increasing similarity
\* order, and candidates with equal similarity appear in document id order
\* (the order in which the documents were indexed), also after truncation to
\* limit.
C13_SortedTiesByDocument ==
    IsLocal =>
        \A p, q \in 1..Len(call.ret.results) :
            p < q =>
                /\ call.ret.results[p].score >= call.ret.results[q].score
                /\ call.ret.results[p].score = call.ret.results[q].score
                      => call.ret.results[p].doc < call.ret.results[q].doc

C13_Witness ==
    /\ IsLocal
    /\ Len(call.ret.scored) = 3
    /\ call.limit = 2
    /\ Len(call.ret.results) = 2
    /\ call.ret.results[1].score = call.ret.results[2].score
    /\ call.ret.results[1].doc = 1
    /\ call.ret.results[2].doc = 3

\* C15: whenever the query vector or a document vector has norm zero, the
\* similarity is 0 and the document is not returned; no input to
\* LocalIndex.search (empty text, text of unknown tokens, documents with no
\* tokens) raises or divides by zero.
C15_ZeroNormIsNoMatch ==
    IsLocal =>
        /\ 0 \notin call.ret.divisors
        /\ \A d \in 1..Len(call.documents) :
              (call.ret.sparse_query.norm = 0 \/ call.index.doc_norms[d] = 0) =>
                  /\ call.ret.similarity[d] = 0
                  /\ \A p \in 1..Len(call.ret.results) : call.ret.results[p].doc # d

C15_Witness ==
    /\ IsLocal
    /\ Len(call.documents) = 2
    /\ call.index.doc_norms[1] = 0
    /\ call.index.doc_norms[2] > 0
    /\ call.ret.sparse_query.norm > 0
    /\ call.ret.divisors # {}
    /\ DocsOf(call.ret.results) = <<2>>

\* C16: out-of-vocabulary tokens contribute nothing: the sparse vector of a
\* text has entries only at the indices of vocabulary tokens present in the
\* text, adding out-of-vocabulary tokens to a query changes neither the set
\* nor the order of the documents LocalIndex.search returns, and a query made
\* only of out-of-vocabulary tokens returns an empty result list.
C16_UnknownTokensIgnored ==
    IsLocal =>
        /\ DOMAIN call.ret.sparse_query.vector
              \subseteq {call.index.token_to_index[tok] : tok \in KnownQueryTokens}
        /\ \A oov \in TokensOf(TokenOrder) \ DOMAIN call.index.token_to_index :
              /\ DocsOf(LocalIndexSearch(call.index, Append(call.text, oov), call.limit).results)
                    = DocsOf(call.ret.results)
              /\ DocsOf(LocalIndexSearch(call.index, <<oov>> \o call.text, call.limit).results)
                    = DocsOf(call.ret.results)
        /\ KnownQueryTokens = {} => call.ret.results = <<>>

C16_Witness ==
    /\ IsLocal
    /\ call.text = <<"ryba", "kot", "kot">>
    /\ "ryba" \notin DOMAIN call.index.token_to_index
    /\ Cardinality(DOMAIN call.ret.sparse_query.vector) = 1
    /\ Len(call.ret.results) = 2
    /\ call.ret.results[1].score > call.ret.results[2].score

\* C14: in the hybrid search, candidates with equal blended score are ordered
\* by document id; in particular, with alpha = 1 and a semantic backend that
\* returns the same score for every candidate, the final ranking is the id
\* order of the candidates.
C14_TiesById ==
    (IsHybrid /\ ~call.ret.empty) =>
        /\ \A p, q \in 1..Len(call.ret.final) :
              (p < q /\ RatEq(call.ret.final[p].score_blended, call.ret.final[q].score_blended))
                  => call.ret.final[p].payload.id <= call.ret.final[q].payload.id
        /\ (call.alpha = Rat(1, 1) /\ AllEqual(SemScores(call.raw))) =>
              \A p, q \in 1..Len(call.ret.final) :
                  p < q => call.ret.final[p].payload.id <= call.ret.final[q].payload.id

\* C11: LocalIndex.search and LocalIndex.encode never modify the index
\* (documents, vocabulary, idf table, document vectors, norms): for a fixed
\* index, any two calls with the same text and limit, in any order and
\* interleaved with any other searches, return the same ordered result list.
C11_IndexReadOnly ==
    kb.built =>
        /\ kb.index = LocalIndexOf(kb.documents)
        /\ (kb.first # NoCall /\ call # NoCall /\ SameCall(call, kb.first))
              => call.ret = kb.first.ret

C11_Witness ==
    /\ kb.built
    /\ kb.first # NoCall
    /\ kb.between
    /\ call.fn = "index.search"
    /\ SameCall(call, kb.first)
    /\ call.limit = 2
    /\ Len(call.ret) = 2
    /\ call.ret[1].score > call.ret[2].score

IsInit == call.fn = "LocalIndex"

IsFromDirectory == call.fn = "from_directory"

\* a record that is a mapping with a non-empty text part and a normalised token
ValidRecord(raw_item) ==
    /\ raw_item.is_dict
    /\ _collect_text_parts(raw_item) # <<>>
    /\ normalize_text(Flatten(_collect_text_parts(raw_item))) # <<>>

\* the valid records of a file that parses to a list
ValidRecords(file) ==
    IF file.kind = "list" THEN SelectSeq(file.payload, ValidRecord) ELSE <<>>

\* the documents of the valid records of a directory, file by file
ValidDocuments(directory) ==
    Flatten([f \in 1..Len(directory.files) |->
        [k \in 1..Len(ValidRecords(directory.files[f])) |->
            LET raw_item == ValidRecords(directory.files[f])[k]
            IN  [collection |-> FileStems[f],
                 text |-> _collect_text_parts(raw_item),
                 normalized_tokens |-> normalize_text(Flatten(_collect_text_parts(raw_item)))]]])

\* C17: building a LocalIndex fails with an error, and no index object is
\* produced, when the document set is empty; from_directory fails the same
\* way when no valid document remains after filtering (missing directory,
\* unreadable files, non-list files, records without text or tokens).
C17_NoIndexWithoutDocuments ==
    /\ (IsInit /\ call.documents = <<>>) =>
          call.ret.raised /\ ~call.ret.built /\ call.ret.index = NoIndex
    /\ (IsFromDirectory /\ (~call.directory.exists \/ ValidDocuments(call.directory) = <<>>)) =>
          call.ret.raised /\ ~call.ret.built /\ call.ret.index = NoIndex

C17_Witness ==
    /\ IsFromDirectory
    /\ call.directory.exists
    /\ Len(call.directory.files) = 2
    /\ call.directory.files[1].kind = "unreadable"
    /\ call.directory.files[2].kind = "list"
    /\ Len(call.directory.files[2].payload) = 2
    /\ call.directory.files[2].payload[1].is_dict
    /\ call.directory.files[2].payload[2].is_dict
    /\ call.ret.raised

\* C18: from_directory indexes exactly the records that are mappings with at
\* least one non-empty text part and at least one normalized token; every
\* other record, and every file that cannot be parsed or is not a list, is
\* skipped without aborting the build, so every indexed document has a
\* non-empty token list.
C18_IndexesValidRecords ==
    (IsFromDirectory /\ call.directory.exists) =>
        /\ call.ret.documents = ValidDocuments(call.directory)
        /\ ValidDocuments(call.directory) # <<>> =>
              /\ ~call.ret.raised
              /\ call.ret.built
              /\ call.ret.index.documents = ValidDocuments(call.directory)
        /\ \A d \in 1..Len(call.ret.documents) :
              call.ret.documents[d].normalized_tokens # <<>>

C18_Witness ==
    /\ IsFromDirectory
    /\ Len(call.directory.files) = 2
    /\ call.directory.files[1].kind = "object"
    /\ call.directory.files[2].kind = "list"
    /\ Len(call.directory.files[2].payload) = 2
    /\ ~ValidRecord(call.directory.files[2].payload[1])
    /\ _collect_text_parts(call.directory.files[2].payload[1]) # <<>>
    /\ call.ret.built
    /\ Len(call.ret.index.documents) = 1
    /\ call.ret.index.documents[1].collection = "rooms"
    /\ call.ret.index.documents[1].normalized_tokens = <<"klyuchevoy", "slovo", "sobaka">>

IsBm25 == call.fn = "_bm25_scores"

\* the terms of a query that a candidate text holds, both lower-cased
TermsIn(query, doc) ==
    {_norm_token(query[k]) : k \in 1..Len(query)} \cap {_norm_token(doc[j]) : j \in 1..Len(doc)}

\* C19: for every query and candidate pool, a candidate that contains none of
\* the query's terms gets a BM25 score of exactly 0, and a candidate that
\* contains at least one query term gets a score strictly greater than 0 (so
\* in the corpus "kot sidit na okne", "sobaka bezhit po dvoru", "kot i sobaka
\* igrayut" the query "kot" ranks documents 1 and 3 above document 2).
C19_ScoreIffOverlap ==
    IsBm25 =>
        \A i \in 1..Len(call.docs) :
            /\ TermsIn(call.query, call.docs[i]) = {} => call.ret[i] = 0
            /\ TermsIn(call.query, call.docs[i]) # {} => call.ret[i] > 0

C19_Witness ==
    /\ IsBm25
    /\ call.query = <<"kot">>
    /\ call.docs = << <<"kot", "sidit", "na", "okne">>,
                      <<"sobaka", "bezhit", "po", "dvoru">>,
                      <<"kot", "i", "sobaka", "igrayut">> >>
    /\ call.df = <<2>>
    /\ call.ret[2] = 0
    /\ call.ret[1] > call.ret[2]
    /\ call.ret[3] > call.ret[2]

\* C20: for every query and every candidate list, including the empty list
\* and a list whose texts all have zero tokens, _bm25_scores returns without
\* error exactly one score per candidate, in candidate order, with document
\* frequencies counted inside the candidate pool only and avgdl taken as 1.0
\* for an empty pool.
C20_OneScorePerCandidate ==
    IsBm25 =>
        /\ Len(call.ret) = Len(call.docs)
        /\ 0 \notin call.divisors
        /\ \A i, j \in 1..Len(call.docs) : call.docs[i] = call.docs[j] => call.ret[i] = call.ret[j]
        /\ \A i \in 1..Len(call.docs) : call.ret[i] > 0 <=> TermsIn(call.query, call.docs[i]) # {}
        /\ \A k \in 1..Len(call.q_terms) :
              call.df[k] = Cardinality({i \in 1..Len(call.docs) :
                                           TermsIn(<<call.q_terms[k]>>, call.docs[i]) # {}})
        /\ call.avgdl.den > 0
        /\ call.docs = <<>> => RatEq(call.avgdl, Rat(1, 1))
        /\ call.docs # <<>> =>
              RatEq(call.avgdl, Rat(SumSeq([i \in 1..Len(call.docs) |-> Len(call.docs[i])]),
                                    Len(call.docs)))

C20_Witness ==
    /\ IsBm25
    /\ call.query = <<"Kot", "sobaka", "kot">>
    /\ call.docs = << <<>>, <<>> >>
    /\ call.avgdl.num = 0
    /\ call.df = <<0, 0>>
    /\ call.ret = <<0, 0>>

\* a list in reverse order
Reversed(seq) == [k \in 1..Len(seq) |-> seq[Len(seq) + 1 - k]]

IsExtract == call.fn = "extract_payload_text"

\* the text sources of a payload
BlocksText(payload) ==
    IF payload.raw.is_dict /\ payload.raw.is_blocks
    THEN JoinTruthy(payload.raw.text_blocks) ELSE <<>>

FaqText(payload) ==
    IF payload.raw.is_dict /\ payload.raw.category = "faq"
       /\ (payload.raw.question # <<>> \/ payload.raw.answer # <<>>)
    THEN <<"Q:">> \o payload.raw.question \o <<"A:">> \o payload.raw.answer
    ELSE <<>>

RawText(payload) == IF payload.raw.is_dict THEN payload.raw.text ELSE <<>>

\* the first non-empty text of a list of texts, or no text
FirstText(texts) ==
    IF \E k \in 1..Len(texts) : texts[k] # <<>>
    THEN texts[CHOOSE k \in 1..Len(texts) : texts[k] # <<>> /\ \A j \in 1..(k - 1) : texts[j] = <<>>]
    ELSE <<>>

\* C22 as stated: the display text of a backend hit is the payload's explicit
\* text field if non-empty, else the joined values of the text_blocks mapping,
\* else the question/answer rendering; a payload with none of these yields no
\* text.
C22_Original ==
    IsExtract =>
        LET expected == FirstText(<<call.payload.text, BlocksText(call.payload),
                                    FaqText(call.payload)>>)
        IN  call.ret = expected /\ call.app_text = expected

\* C22 as amended: the priority is the text field, then text_bm25, then the
\* joined non-empty values of raw.text_blocks, then raw.text, then the
\* question/answer rendering of a raw record of category faq; a payload in
\* which none of these exists yields no text.
C22_TextPriority ==
    IsExtract =>
        LET expected == FirstText(<<call.payload.text, call.payload.text_bm25,
                                    BlocksText(call.payload), RawText(call.payload),
                                    FaqText(call.payload)>>)
        IN  call.ret = expected /\ call.app_text = expected

C22_Witness ==
    /\ IsExtract
    /\ call.payload.text = <<>>
    /\ call.payload.text_bm25 = <<>>
    /\ call.payload.raw.is_dict
    /\ call.payload.raw.is_blocks
    /\ call.payload.raw.text = <<"rawtext">>
    /\ call.payload.raw.category = "faq"
    /\ call.payload.raw.question = <<"wifi">>
    /\ call.ret = <<"block1", "block2">>

\* the tokens that occur in the documents of a list
CorpusTokens(documents) ==
    UNION {TokensOf(documents[d].normalized_tokens) : d \in 1..Len(documents)}

\* C23: after a LocalIndex is built, the vocabulary maps the set of tokens
\* occurring in any indexed document one-to-one onto the indices
\* 0 .. dimension-1 (every such token has exactly one index, no two tokens
\* share one, no other token has one), and this mapping never changes
\* afterwards.
C23_VocabularyBijection ==
    kb.built =>
        LET token_to_index == kb.index.token_to_index
        IN  /\ DOMAIN token_to_index = CorpusTokens(kb.documents)
            /\ {token_to_index[tok] : tok \in DOMAIN token_to_index} = 0..(kb.index.dimension - 1)
            /\ \A t1, t2 \in DOMAIN token_to_index :
                  token_to_index[t1] = token_to_index[t2] => t1 = t2
            /\ token_to_index = LocalIndexOf(kb.documents).token_to_index

C23_Witness ==
    /\ kb.built
    /\ kb.index.dimension = 5
    /\ "klyuchevoy" \notin DOMAIN kb.index.token_to_index
    /\ "sobaka" \in DOMAIN kb.index.token_to_index
    /\ kb.index.token_to_index["sobaka"] = 4
    /\ kb.between
    /\ call.fn = "index.search"
    /\ Len(call.ret) = 2

\* C24: for every vocabulary token t of a built index with N documents, df(t)
\* is the number of indexed documents that contain t at least once (repeats
\* inside one document count once) and 1 <= df(t) <= N, so
\* (1 + N) / (1 + df(t)) >= 1 and idf(t) is strictly positive with no division
\* by zero, also when df(t) = N.
C24_DfAndIdfBounds ==
    IsLocal =>
        LET N == call.index.doc_count
        IN  /\ DOMAIN call.index.df = CorpusTokens(call.documents)
            /\ \A t \in DOMAIN call.index.df :
                  /\ call.index.df[t] =
                        Cardinality({d \in 1..N : CountOf(t, call.documents[d].normalized_tokens) >= 1})
                  /\ 1 <= call.index.df[t]
                  /\ call.index.df[t] <= N
                  /\ 1 + call.index.df[t] # 0
                  /\ 1 + N >= 1 + call.index.df[t]
                  /\ call.index.idf[t] >= 1000
                  /\ call.index.df[t] = N => call.index.idf[t] = 1000

C24_Witness ==
    /\ IsLocal
    /\ call.index.doc_count = 3
    /\ {"kot", "sobaka"} \subseteq DOMAIN call.index.df
    /\ call.index.df["kot"] = 3
    /\ call.index.idf["kot"] = 1000
    /\ CountOf("kot", call.documents[2].normalized_tokens) = 2
    /\ call.index.df["sobaka"] = 1
    /\ call.index.idf["sobaka"] > 1000

\* C25: the lemma cache attached to the shared morphological analyzer never
\* holds more than _LEMMA_CACHE_MAX_SIZE entries after any sequence of
\* normalize_text calls, including calls interleaved between the two request
\* threads of one worker that share the analyzer; on overflow the cache is
\* cleared before the new entry is inserted.
C25_CacheBounded ==
    Cardinality(lemma.cache) <= _LEMMA_CACHE_MAX_SIZE

\* the session of a user is stored and, at the instant now, not expired
Live(sessions, user, now) ==
    /\ user \in DOMAIN sessions
    /\ now - sessions[user].last_activity <= 3600

\* a step of the model that served a message: the clock stands still
Served == book'.now = book.now /\ book' # book

\* the stored session holds what its step has collected
HoldsCollected(session) ==
    /\ session.step \in INTENT_DETECTION..CHILDREN_INFO
    /\ session.step >= NIGHTS_COUNT => "date_from" \in DOMAIN session.info
    /\ session.step >= ADULTS_COUNT =>
          /\ "date_to" \in DOMAIN session.info
          /\ session.info["date_to"] - session.info["date_from"] \in 1..30
    /\ session.step = CHILDREN_INFO =>
          /\ "adults" \in DOMAIN session.info
          /\ session.info["adults"] \in 1..10

\* the moves of the step the claim allows, staying included
ForwardMoves ==
    {<<n, n>> : n \in 0..4} \cup {<<0, 1>>, <<1, 2>>, <<1, 3>>, <<2, 3>>, <<3, 4>>}

\* C26: in every reachable state of a stored booking session, step >=
\* NIGHTS_COUNT implies info holds date_from; step >= ADULTS_COUNT implies info
\* also holds date_to, 1 to 30 days after date_from; step = CHILDREN_INFO
\* implies info holds adults with 1 <= adults <= 10; and while a session stays
\* the same stored session its step only moves forward (INTENT_DETECTION,
\* CHECKIN_DATE, NIGHTS_COUNT or directly ADULTS_COUNT, CHILDREN_INFO).
C26_StepsCollectForward ==
    [][/\ \A u \in DOMAIN book'.sessions : HoldsCollected(book'.sessions[u])
       /\ \A u \in Users :
            (Live(book.sessions, u, book.now) /\ u \in DOMAIN book'.sessions)
                => <<book.sessions[u].step, book'.sessions[u].step>> \in ForwardMoves]_vars

C26_Witness ==
    /\ "u1" \in DOMAIN book.sessions
    /\ book.sessions["u1"].step = CHILDREN_INFO
    /\ book.sessions["u1"].info["date_from"] = 1
    /\ book.sessions["u1"].info["date_to"] = 11
    /\ book.sessions["u1"].info["adults"] = 10
    /\ book.last.text = <<"10">>
    /\ book.last.step = ADULTS_COUNT

\* the input is one the claim calls rejected at the step of the session
RejectedInput(session, text, today) ==
    CASE session.step = CHECKIN_DATE ->
            parse_natural_date(text, today).date.none
      [] session.step = NIGHTS_COUNT ->
            extract_number(text).none \/ extract_number(text).value \notin 1..30
      [] session.step = ADULTS_COUNT ->
            extract_number(text).none \/ extract_number(text).value \notin 1..11
      [] session.step = CHILDREN_INFO ->
            \/ _parse_children_ages(text).raised
            \/ \E i \in 1..Len(_parse_children_ages(text).ages) :
                  _parse_children_ages(text).ages[i] \notin 0..11
            \/ session.info["adults"] + Len(_parse_children_ages(text).ages) > 11
      [] OTHER -> FALSE

Reprompts == {"reprompt_checkin", "reprompt_nights", "reprompt_adults", "reprompt_children"}

\* C27: when the input at a dialog step is rejected (date not parseable;
\* nights not a number or outside 1..30; adults not a number or outside 1..11;
\* children ages not numeric, outside 0..11, or making more than 11 guests),
\* the session keeps its step and its collected info and stays stored, the
\* reply is a re-prompt in booking mode, and the price is not looked up.
C27_RejectedInputKeepsSession ==
    [][\A u \in Users :
         (/\ Served
          /\ book'.last.user = u
          /\ book'.last.text \notin CANCEL_COMMANDS
          /\ Live(book.sessions, u, book.now)
          /\ RejectedInput(book.sessions[u], book'.last.text, book.now \div 86400))
            => /\ u \in DOMAIN book'.sessions
               /\ book'.sessions[u].step = book.sessions[u].step
               /\ book'.sessions[u].info = book.sessions[u].info
               /\ book'.last.answer \in Reprompts
               /\ book'.last.mode = "booking"
               /\ ~book'.last.lookup]_vars

C27_Witness ==
    /\ book.last.user = "u1"
    /\ book.last.text = <<"5", ",", " ", "9">>
    /\ book.last.step = CHILDREN_INFO
    /\ book.last.answer = "reprompt_children"
    /\ "u1" \in DOMAIN book.sessions
    /\ book.sessions["u1"].step = CHILDREN_INFO
    /\ book.sessions["u1"].info["adults"] = 10

\* the message makes the dialog look the price up: accepted children, or 11 adults
LookupInput(session, text, today) ==
    \/ session.step = CHILDREN_INFO /\ ~RejectedInput(session, text, today)
    \/ session.step = ADULTS_COUNT /\ extract_number(text) = Some(11)

\* C28: once the dialog has issued its price lookup (after the children step,
\* or after the adults step when adults = 11), or has hit an internal error, or
\* the user has sent a cancel command, no session of that user remains stored
\* whatever the lookup returned; and a message of a user without a stored
\* session is handled from INTENT_DETECTION with empty info.
C28_EndedDialogLeavesNoSession ==
    [][\A u \in Users :
         (Served /\ book'.last.user = u) =>
            /\ (\/ book'.last.text \in CANCEL_COMMANDS
                \/ book'.last.answer = "error"
                \/ /\ Live(book.sessions, u, book.now)
                   /\ LookupInput(book.sessions[u], book'.last.text, book.now \div 86400))
                  => u \notin DOMAIN book'.sessions
            /\ (u \notin DOMAIN book.sessions /\ book'.last.text \notin CANCEL_COMMANDS)
                  => /\ book'.last.step = INTENT_DETECTION
                     /\ u \in DOMAIN book'.sessions
                     /\ book'.sessions[u].info = EmptyDict
                     /\ book'.sessions[u].step \in {INTENT_DETECTION, CHECKIN_DATE}]_vars

C28_Witness ==
    /\ book.last.user = "u1"
    /\ book.last.step = CHILDREN_INFO
    /\ book.last.lookup
    /\ book.last.answer = "timeout"
    /\ "u1" \notin DOMAIN book.sessions
    /\ "u2" \in DOMAIN book.sessions

\* C29: a booking session whose last activity lies more than 3600 seconds
\* before a load is never resumed: the load of any user removes it from the
\* table first, and the owner's message is handled by a fresh session at
\* INTENT_DETECTION with empty info; a session touched within the last 3600
\* seconds is never removed by this cleanup.
C29_ExpiredNeverResumed ==
    [][\A u \in Users :
         (Served /\ book'.last.user = u /\ book'.last.text \notin CANCEL_COMMANDS) =>
            \A v \in DOMAIN book.sessions :
                IF book.now - book.sessions[v].last_activity > 3600
                THEN /\ v \in book'.last.dropped
                     /\ v # u => v \notin DOMAIN book'.sessions
                     /\ v = u => /\ book'.last.step = INTENT_DETECTION
                                 /\ book'.sessions[u].info = EmptyDict
                                 /\ book'.sessions[u].step \in {INTENT_DETECTION, CHECKIN_DATE}
                                 /\ book'.sessions[u].last_activity = book.now
                ELSE /\ v \notin book'.last.dropped
                     /\ v # u => /\ v \in DOMAIN book'.sessions
                                 /\ book'.sessions[v] = book.sessions[v]
                     /\ v = u => book'.last.step = book.sessions[u].step]_vars

C29_Witness ==
    /\ book.last.user = "u2"
    /\ book.last.dropped = {"u1"}
    /\ "u1" \notin DOMAIN book.sessions
    /\ "u2" \in DOMAIN book.sessions
    /\ book.sessions["u2"].step = NIGHTS_COUNT
    /\ book.now - book.sessions["u2"].last_activity = 0

IsParseDate == call.fn = "parse_natural_date"

\* C30: parse_natural_date returns the date of the expression the text
\* states: a text containing 'poslezavtra' yields the day two days after today,
\* a text containing 'zavtra' and not 'poslezavtra' the day after today, and the
\* weekend expressions a Saturday not before today with a default stay of 2 nights.
C30_StatedExpression ==
    IsParseDate =>
        /\ Contains(<<"posle", "zavtra">>, call.text)
              => call.ret = [date |-> Some(call.today + 2), nights |-> None]
        /\ (Contains(<<"zavtra">>, call.text) /\ ~Contains(<<"posle", "zavtra">>, call.text))
              => call.ret = [date |-> Some(call.today + 1), nights |-> None]
        /\ (\/ Contains(<<"na", " ", "vyhodnyh">>, call.text)
            \/ Contains(<<"eti", " ", "vyhodnye">>, call.text)
            \/ Contains(<<"sleduyushch">>, call.text) /\ Contains(<<"vyhodnyh">>, call.text))
              => /\ ~call.ret.date.none
                 /\ call.ret.date.value >= call.today
                 /\ (call.ret.date.value % 7) = 5
                 /\ call.ret.nights = Some(2)

====
